---- MODULE Spec2Model ----
(***************************************************************************)
(* Staged evidence-fusion pipeline of the AI image detector:               *)
(*   pkg/analyzer/pipeline/pipelines.go   AnalysisPipeline (runner)        *)
(*   cache (AnalysisCache)                content cache with TTL           *)
(*   internal/handlers/verdict            CalculateOverallVerdict          *)
(*                                                                         *)
(* Conventions.  A Go float64 is an integer number of hundredths (0.95 is  *)
(* 95, the c2pa score 96.0 is 9600).  A Go interface{} value is a record   *)
(* [type, v]; a Go map[string]interface{} is a TLA+ function from field    *)
(* names to such records.  The clock counts ticks of 15 minutes.           *)
(***************************************************************************)
EXTENDS Integers, Sequences, FiniteSets, Bags, TLC

\* ---------------------------------------------------------------- bounds
MaxRuns == 2        \* RunAnalysis invocations in one behaviour
MaxTime == 3        \* last clock tick
MaxFailures == 1    \* independent analyzer failures per invocation

\* ------------------------------------------------------ program constants
CacheTTL == 2           \* 30 * time.Minute, in ticks of 15 minutes
EarlyConfidence == 98   \* calculateEarlyConfidence: 0.98
C2PADefinitive == 9500  \* hasDefinitiveC2PAEvidence: scoreFloat >= 95
MetaDefinitive == 95    \* hasDefinitiveMetadataEvidence: >= 0.95

\* ------------------------------------------------------- Go value model
Nil == [type |-> "nil", v |-> 0]
GoFloat(x) == [type |-> "float", v |-> x]
GoString(s) == [type |-> "string", v |-> s]
GoBool(b) == [type |-> "bool", v |-> b]
GoMap(f) == [type |-> "map", v |-> f]
EXIFData == [type |-> "exif", v |-> 0]      \* *exifanalyzer.EXIFData
EmptyMap == [n \in {} |-> Nil]

IsMap(x) == x.type = "map"
Has(m, k) == k \in DOMAIN m
\* m[k] = v  on a Go map
Put(m, k, val) == [n \in (DOMAIN m) \cup {k} |-> IF n = k THEN val ELSE m[n]]
\* m[k] read on a Go map: the zero value (nil interface) when k is missing
Lookup(m, k) == IF Has(m, k) THEN m[k] ELSE Nil
\* a map filled entry by entry: every value is computed once, when it is stored
MakeMap(f) == f @@ EmptyMap

\* ------------------------------------------------------- stage registry
getDefaultStages ==
  << [Name |-> "metadata-quick",     Priority |-> 1, FastTrack |-> TRUE,  Timeout |-> 5],
     [Name |-> "c2pa",               Priority |-> 1, FastTrack |-> TRUE,  Timeout |-> 8],
     [Name |-> "exif",               Priority |-> 1, FastTrack |-> TRUE,  Timeout |-> 2],
     [Name |-> "metadata",           Priority |-> 2, FastTrack |-> FALSE, Timeout |-> 8],
     [Name |-> "artifacts",          Priority |-> 3, FastTrack |-> FALSE, Timeout |-> 15],
     [Name |-> "compression",        Priority |-> 3, FastTrack |-> FALSE, Timeout |-> 10],
     [Name |-> "pixel-analysis",     Priority |-> 3, FastTrack |-> FALSE, Timeout |-> 18],
     [Name |-> "color-balance",      Priority |-> 3, FastTrack |-> FALSE, Timeout |-> 12],
     [Name |-> "advanced-artifacts", Priority |-> 3, FastTrack |-> FALSE, Timeout |-> 20],
     [Name |-> "object-coherence",   Priority |-> 4, FastTrack |-> FALSE, Timeout |-> 25],
     [Name |-> "lighting-analysis",  Priority |-> 4, FastTrack |-> FALSE, Timeout |-> 20],
     [Name |-> "ai-model",           Priority |-> 2, FastTrack |-> FALSE, Timeout |-> 30] >>

StageNames == {getDefaultStages[i].Name : i \in 1..Len(getDefaultStages)}
FastTrackNames ==
  {getDefaultStages[i].Name : i \in {j \in 1..Len(getDefaultStages) : getDefaultStages[j].FastTrack}}

\* stages[j], stages[j+1] = stages[j+1], stages[j]
Swap(s, j) == [s EXCEPT ![j] = s[j + 1], ![j + 1] = s[j]]

\* the inner loop exchanging neighbours of equal priority as well
RECURSIVE BubbleInnerUnstable(_, _, _)
BubbleInnerUnstable(s, i, j) ==
  IF j < Len(s) - i - 1
  THEN BubbleInnerUnstable(IF s[j + 1].Priority >= s[j + 2].Priority THEN Swap(s, j + 1) ELSE s,
                           i, j + 1)
  ELSE s

\* the inner loop of the bubble sort, from index j (0-based) of pass i
RECURSIVE BubbleInner(_, _, _)
BubbleInner(s, i, j) ==
  IF j < Len(s) - i - 1
  THEN BubbleInner(IF s[j + 1].Priority > s[j + 2].Priority THEN Swap(s, j + 1) ELSE s,
                   i, j + 1)
  ELSE s

RECURSIVE BubbleOuter(_, _)
BubbleOuter(s, i) ==
  IF i < Len(s) - 1 THEN BubbleOuter(BubbleInner(s, i, 0), i + 1) ELSE s

getSortedStages(stages) == BubbleOuter(stages, 0)

SortedStages == getSortedStages(getDefaultStages)
NumStages == Len(getDefaultStages)

\* ------------------------------------------------------------- artifacts
Paths == {"a.jpg", "b.jpg", "c.jpg", "d.jpg", "gone.jpg"}
Readable(p) == p # "gone.jpg"
\* a.jpg and b.jpg hold the same bytes
FileBytes(p) ==
  CASE p \in {"a.jpg", "b.jpg"} -> <<1, 9>>
    [] p = "c.jpg" -> <<2, 7>>
    [] OTHER -> <<3, 3>>
Sha256(bytes) == <<"sha256">> \o bytes

\* a key that also hashes the path
generateCacheKeyByPath(path) ==
  IF Readable(path)
  THEN [err |-> FALSE, key |-> <<"analysis_", path>> \o Sha256(FileBytes(path))]
  ELSE [err |-> TRUE, key |-> <<>>]

\* generateCacheKey: os.Open fails on an unreadable file; the key is
\* "analysis_" + hex(sha256(content)), the path takes no part in it.
generateCacheKey(path) ==
  IF Readable(path)
  THEN [err |-> FALSE, key |-> <<"analysis_">> \o Sha256(FileBytes(path))]
  ELSE [err |-> TRUE, key |-> <<>>]

\* ----------------------------------------------------- analyzers (inputs)
\* What each analyzer returns when it succeeds on an artifact.  The analyzers
\* are external functions of the artifact: a.jpg/b.jpg is a camera photo,
\* c.jpg names a generative tool in its metadata and has no C2PA manifest
\* (the tool prints JSON null), d.jpg carries a C2PA score of 96.
MetaCamera == GoMap([Software |-> GoString("Canon EOS R5")])
MetaAITool == GoMap([Software |-> GoString("Midjourney 5.2")])
C2PAHigh == GoMap([claims_found |-> GoBool(TRUE), score |-> GoFloat(9600)])
C2PALow == GoMap([claims_found |-> GoBool(TRUE), score |-> GoFloat(4000)])

AnalyzerOutput(name, path) ==
  CASE name \in {"metadata-quick", "metadata"} ->        \* RunMetadata
         IF path = "c.jpg" THEN MetaAITool ELSE MetaCamera
    [] name = "c2pa" ->                                  \* RunC2PA
         IF path = "c.jpg" THEN Nil ELSE IF path = "d.jpg" THEN C2PAHigh ELSE C2PALow
    [] name = "exif" -> EXIFData                         \* AnalyzeEXIF
    [] name = "artifacts" ->
         GoMap([overall_assessment |-> GoMap([ai_probability_score |-> GoFloat(80)])])
    [] name = "compression" ->
         GoMap([file |-> GoMap([compression_ai_analysis |-> GoMap([ai_probability |-> GoFloat(30)])])])
    [] name = "pixel-analysis" ->
         GoMap([overall_assessment |-> GoMap([ai_probability_score |-> GoFloat(75)])])
    [] name = "color-balance" -> GoMap([ai_color_score |-> GoFloat(60)])
    [] name = "advanced-artifacts" ->
         GoMap([advanced_assessment |-> GoMap([advanced_ai_probability |-> GoFloat(82)])])
    [] name = "object-coherence" ->
         GoMap([object_analysis |-> GoMap([ai_coherence_score |-> GoFloat(40)])])
    [] name = "lighting-analysis" ->
         GoMap([lighting_analysis |-> GoMap([ai_lighting_score |-> GoFloat(70)])])
    [] name = "ai-model" ->
         GoMap([prediction |-> GoString("fake"), probability |-> GoFloat(90)])

\* AnalyzeEXIF takes no context; every other analyzer runs exec.CommandContext,
\* which fails once its context is done.
HonoursCtx(name) == name # "exif"

Failed == [ok |-> FALSE, val |-> Nil]
Returned(x) == [ok |-> TRUE, val |-> x]

\* The outcomes of stage.Analyzer(stageCtx, imagePath): an error (also a
\* timeout of the stage's own context) or the analyzer's value.  down: no
\* analyzer works on this invocation; mayFail: this call may fail by itself.
AnalyzerOutcomes(name, path, ctxDone, down, mayFail) ==
  IF (ctxDone /\ HonoursCtx(name)) \/ down
  THEN {Failed}
  ELSE (IF mayFail THEN {Failed} ELSE {}) \cup {Returned(AnalyzerOutput(name, path))}

\* ----------------------------------------------------------------- cache
\* an entry that is dead from the instant ExpiresAt on
ExpiredAtInstant(t, item) == t >= item.ExpiresAt

\* AnalysisCache.Get at time t: absent, or expired when now.After(ExpiresAt)
Expired(t, item) == t > item.ExpiresAt
CacheGet(its, key, t) ==
  IF ~Has(its, key) \/ Expired(t, its[key])
  THEN [found |-> FALSE, data |-> Nil]
  ELSE [found |-> TRUE, data |-> its[key].Data]

\* AnalysisCache.Set at time t
CacheSet(its, key, data, ttl, t) ==
  Put(its, key, [Data |-> data, ExpiresAt |-> t + ttl, CreatedAt |-> t])

\* ------------------------------------------------------ early-exit tests
\* strings.Contains(strings.ToLower(valueStr), strings.ToLower(keyword)) for
\* the aiKeywords of detectAIFromMetadata, on the strings of the model
aiKeywords ==
  <<"ChatGPT", "DALL-E", "Midjourney", "Stable Diffusion", "trainedAlgorithmicMedia",
    "AI generated">>
ContainsFold(str, keyword) ==
  \/ str = "Midjourney 5.2" /\ keyword = "Midjourney"
  \/ str = "made with dall-e 3" /\ keyword = "DALL-E"

\* detectAIFromMetadata: 1.0 when a top-level string value holds a keyword, else -1
detectAIFromMetadata(dataMap) ==
  IF \E k \in DOMAIN dataMap :
       /\ dataMap[k].type = "string"
       /\ \E i \in 1..Len(aiKeywords) : ContainsFold(dataMap[k].v, aiKeywords[i])
  THEN 100 ELSE -100

hasDefinitiveMetadataEvidence(data) ==
  IF IsMap(data) THEN detectAIFromMetadata(data.v) >= MetaDefinitive ELSE FALSE

hasDefinitiveC2PAEvidence(data) ==
  IF IsMap(data) /\ Has(data.v, "score") /\ data.v["score"].type = "float"
  THEN data.v["score"].v >= C2PADefinitive
  ELSE FALSE

\* shouldEarlyExit(results), with the value IsEarlyExitEnabled() returns
shouldEarlyExit(results, enabled) ==
  IF ~enabled THEN FALSE
  ELSE IF Has(results, "metadata-quick") /\ hasDefinitiveMetadataEvidence(results["metadata-quick"])
  THEN TRUE
  ELSE IF Has(results, "c2pa") /\ hasDefinitiveC2PAEvidence(results["c2pa"])
  THEN TRUE
  ELSE FALSE

\* confidences are exact fractions num/den of hundredths
calculateEarlyConfidence(results) == [num |-> EarlyConfidence, den |-> 1]

\* a confidence that is the completion ratio alone, scaled to 0.9
calculateFinalConfidenceRatioOnly(results) ==
  [num |-> 90 * Cardinality(DOMAIN results), den |-> NumStages]

\* a confidence that counts only the results that are not nil
calculateFinalConfidenceNonNil(results) ==
  [num |-> 50 * NumStages + 40 * Cardinality({k \in DOMAIN results : results[k] # Nil}),
   den |-> NumStages]

\* 0.5 + (float64(len(results)) / float64(len(ap.stages))) * 0.4
calculateFinalConfidence(results) ==
  [num |-> 50 * NumStages + 40 * Cardinality(DOMAIN results), den |-> NumStages]

\* ------------------------------------------------- verdict: arithmetic
\* In the verdict package a float64 is the exact rational num/den in lowest
\* terms (den > 0); 1.0 is [num |-> 1, den |-> 1].
RECURSIVE GCD(_, _)
GCD(a, b) == IF b = 0 THEN a ELSE GCD(b, a % b)
Abs(x) == IF x < 0 THEN -x ELSE x
Rat(n, d) == LET g == GCD(Abs(n), d) IN [num |-> n \div g, den |-> d \div g]
RMul(a, b) ==
  LET g1 == GCD(Abs(a.num), b.den)
      g2 == GCD(Abs(b.num), a.den)
  IN [num |-> (a.num \div g1) * (b.num \div g2), den |-> (a.den \div g2) * (b.den \div g1)]
RAdd(a, b) ==
  LET g == GCD(a.den, b.den)
  IN Rat(a.num * (b.den \div g) + b.num * (a.den \div g), (a.den \div g) * b.den)
RNeg(a) == [num |-> -a.num, den |-> a.den]
RSub(a, b) == RAdd(a, RNeg(b))
\* a / b for b > 0
RDiv(a, b) == RMul(a, [num |-> b.den, den |-> b.num])
RLe(a, b) ==
  LET g == GCD(a.den, b.den) IN a.num * (b.den \div g) <= b.num * (a.den \div g)
RLt(a, b) ==
  LET g == GCD(a.den, b.den) IN a.num * (b.den \div g) < b.num * (a.den \div g)
RMin(a, b) == IF RLe(a, b) THEN a ELSE b
RMax(a, b) == IF RLe(a, b) THEN b ELSE a
RInt(n) == [num |-> n, den |-> 1]
\* the float64 behind a GoFloat of the model (hundredths)
Hundredths(x) == Rat(x, 100)
\* the sum of f over the stage names in S; the arithmetic is exact, so the
\* order of the additions does not matter and the stage list gives it
RECURSIVE SumFrom(_, _, _)
SumFrom(f, S, i) ==
  IF i > NumStages THEN RInt(0)
  ELSE IF getDefaultStages[i].Name \in S
  THEN RAdd(f[getDefaultStages[i].Name], SumFrom(f, S, i + 1))
  ELSE SumFrom(f, S, i + 1)
RSum(f, S) == SumFrom(f, S, 1)

\* strconv.ParseFloat on the strings of the model
ParseFloat(str) ==
  IF str = "0.85" THEN [ok |-> TRUE, val |-> Hundredths(85)]
  ELSE [ok |-> FALSE, val |-> RInt(0)]

\* utils.GetFloatValue(data, key)
GetFloatValue(data, key) ==
  IF ~Has(data, key) THEN [ok |-> FALSE, val |-> RInt(0)]
  ELSE CASE data[key].type = "float" -> [ok |-> TRUE, val |-> Hundredths(data[key].v)]
         [] data[key].type = "int" -> [ok |-> TRUE, val |-> RInt(data[key].v)]
         [] data[key].type = "string" -> ParseFloat(data[key].v)
         [] OTHER -> [ok |-> FALSE, val |-> RInt(0)]

\* ---------------------------------------------- verdict: score functions
Ignore == RInt(-1)      \* "return -1 // Ignorieren"

\* GetFloatValue(data[outer].(map), inner), or the default
NestedFloat(data, outer, inner, default) ==
  IF IsMap(Lookup(data, outer))
  THEN LET s == GetFloatValue(Lookup(data, outer).v, inner) IN IF s.ok THEN s.val ELSE default
  ELSE default

calculateEXIFScore(data) ==
  IF Has(data, "has_camera_info")
  THEN IF data["has_camera_info"] = GoBool(TRUE) THEN RInt(0) ELSE Ignore
  ELSE Ignore

calculateMetadataScore(data) ==
  IF Has(data, "has_metadata")
  THEN IF data["has_metadata"] = GoBool(TRUE) THEN RInt(0) ELSE Ignore
  ELSE Ignore

calculateAIModelScore(data) ==
  LET p == GetFloatValue(data, "probability") IN IF p.ok THEN p.val ELSE Hundredths(50)

calculateObjectCoherenceScore(data) ==
  LET p == GetFloatValue(data, "ai_probability") IN IF p.ok THEN p.val ELSE Rat(333, 1000)

calculateArtifactsScore(data) ==
  LET a == GetFloatValue(data, "overall_assessment")
  IN IF a.ok THEN a.val
     ELSE NestedFloat(data, "overall_assessment", "ai_probability_score", Hundredths(40))

calculateAdvancedArtifactsScore(data) ==
  LET a == GetFloatValue(data, "advanced_assessment")
      c == GetFloatValue(data, "advanced_ai_probability")
  IN IF a.ok THEN a.val
     ELSE NestedFloat(data, "advanced_assessment", "advanced_ai_probability",
                      IF c.ok THEN c.val ELSE Rat(333, 1000))

\* the first file entry that carries compression_ai_analysis.ai_probability;
\* the compression tool reports on the one file it was given
calculateCompressionScore(data) ==
  LET scored == {k \in DOMAIN data :
                   /\ IsMap(data[k])
                   /\ IsMap(Lookup(data[k].v, "compression_ai_analysis"))
                   /\ GetFloatValue(data[k].v["compression_ai_analysis"].v, "ai_probability").ok}
  IN IF scored = {} THEN Hundredths(50)
     ELSE LET k == CHOOSE x \in scored : TRUE
          IN GetFloatValue(data[k].v["compression_ai_analysis"].v, "ai_probability").val

calculatePixelAnalysisScore(data) ==
  NestedFloat(data, "overall_assessment", "ai_probability_score", Hundredths(50))

calculateLightingAnalysisScore(data) ==
  NestedFloat(data, "lighting_analysis", "ai_lighting_score", Hundredths(50))

calculateColorBalanceScore(data) ==
  LET c == GetFloatValue(data, "ai_color_score") IN IF c.ok THEN c.val ELSE Hundredths(50)

calculateMetadataQuickScore(data) == Ignore

calculateC2PAScore(data) ==
  LET count == GetFloatValue(data, "claims_count")
      score == GetFloatValue(data, "score")
  IN IF Has(data, "claims_found") /\ data["claims_found"] = GoBool(FALSE) THEN Ignore
     ELSE IF count.ok /\ count.val = RInt(0) THEN Ignore
     ELSE IF score.ok THEN RDiv(score.val, RInt(100))
     ELSE Ignore

\* the switch of CalculateOverallVerdict over the stage name
StageScore(name, data) ==
  CASE name = "artifacts" -> calculateArtifactsScore(data)
    [] name = "advanced-artifacts" -> calculateAdvancedArtifactsScore(data)
    [] name = "ai-model" -> calculateAIModelScore(data)
    [] name = "compression" -> calculateCompressionScore(data)
    [] name = "pixel-analysis" -> calculatePixelAnalysisScore(data)
    [] name = "lighting-analysis" -> calculateLightingAnalysisScore(data)
    [] name = "color-balance" -> calculateColorBalanceScore(data)
    [] name = "object-coherence" -> calculateObjectCoherenceScore(data)
    [] name = "exif" -> calculateEXIFScore(data)
    [] name = "metadata" -> calculateMetadataScore(data)
    [] name = "metadata-quick" -> calculateMetadataQuickScore(data)
    [] name = "c2pa" -> calculateC2PAScore(data)

\* the scores map after the loop over results.Results: entries that are maps
\* and whose score is >= 0
CollectScores(results) ==
  LET scored == {n \in DOMAIN results :
                   IsMap(results[n]) /\ RLe(RInt(0), StageScore(n, results[n].v))}
  IN MakeMap([n \in scored |-> StageScore(n, results[n].v)])

\* "if name == "metadata" && score >= 0.95" / "if name == "c2pa" && score >= 0.95"
DefinitiveFound(scores) ==
  \E n \in {"metadata", "c2pa"} : Has(scores, n) /\ RLe(Hundredths(95), scores[n])

\* ------------------------------------------------- verdict: aggregation
\* calibrationFactors, in hundredths
calibrationFactors ==
  ("lighting-analysis" :> 130) @@ ("artifacts" :> 105) @@ ("advanced-artifacts" :> 115) @@
  ("pixel-analysis" :> 105) @@ ("color-balance" :> 100) @@ ("object-coherence" :> 90) @@
  ("compression" :> 40) @@ ("metadata" :> 100) @@ ("c2pa" :> 100) @@ ("exif" :> 70) @@
  ("ai-model" :> 100) @@ ("metadata-quick" :> 100)

applyBalancedCalibration(scores) ==
  MakeMap([n \in DOMAIN scores |->
             IF n \in DOMAIN calibrationFactors
             THEN RMin(RInt(1), RMul(scores[n], Hundredths(calibrationFactors[n])))
             ELSE scores[n]])

\* the unclamped boost
RawBoost(scores) ==
  LET AtLeast(n, x) == Has(scores, n) /\ RLe(Hundredths(x), scores[n])
      AtMost(n, x) == Has(scores, n) /\ RLe(scores[n], Hundredths(x))
      consistencyCount ==
        Cardinality({m \in {"artifacts", "lighting-analysis", "advanced-artifacts",
                            "pixel-analysis"} : AtLeast(m, 40)})
      b1 == IF consistencyCount >= 3 THEN Hundredths(140)
            ELSE IF consistencyCount >= 2 THEN Hundredths(120) ELSE RInt(1)
      b2 == IF Has(scores, "artifacts") /\ AtLeast("ai-model", 50) /\ AtLeast("artifacts", 60)
            THEN RMul(b1, Hundredths(150)) ELSE b1
      b3 == IF Has(scores, "artifacts") /\ AtLeast("ai-model", 70) /\ AtMost("artifacts", 30)
            THEN RMul(b2, Hundredths(130)) ELSE b2
      authenticityCount ==
        Cardinality({m \in {"compression", "color-balance", "artifacts"} :
                       AtMost(m, CASE m = "compression" -> 30
                                   [] m = "color-balance" -> 20
                                   [] m = "artifacts" -> 40)})
      b4 == IF AtMost("ai-model", 30) /\ authenticityCount >= 2
            THEN RMul(b3, Hundredths(60)) ELSE b3
      b5 == IF AtLeast("ai-model", 80) \/ AtMost("ai-model", 20)
            THEN RMul(b4, Hundredths(140)) ELSE b4
  IN IF Has(scores, "ai-model") THEN b5 ELSE b1

calculateAdvancedBoost(scores) ==
  LET boost == RawBoost(scores)
  IN IF RLt(RInt(2), boost) THEN RInt(2)
     ELSE IF RLt(boost, Hundredths(40)) THEN Hundredths(40) ELSE boost

\* weights, in tenths
weights ==
  ("ai-model" :> 60) @@ ("compression" :> 40) @@ ("lighting-analysis" :> 35) @@
  ("artifacts" :> 30) @@ ("advanced-artifacts" :> 30) @@ ("color-balance" :> 30) @@
  ("metadata" :> 25) @@ ("pixel-analysis" :> 25) @@ ("c2pa" :> 20) @@
  ("object-coherence" :> 5) @@ ("exif" :> 10) @@ ("metadata-quick" :> 8)
WeightOf(name) == IF name \in DOMAIN weights THEN Rat(weights[name], 10) ELSE RInt(0)

\* the stages the weighted loop does not skip (lines 165-173)
Weighted(calibratedScores) ==
  {n \in DOMAIN calibratedScores : WeightOf(n) # RInt(0) /\ n # "ai-model"}

\* lines 175-180
AdaptiveWeight(name, score) ==
  IF RLe(Hundredths(80), score) THEN RMul(WeightOf(name), Hundredths(120))
  ELSE IF RLe(score, Hundredths(20)) THEN RMul(WeightOf(name), Hundredths(130))
  ELSE WeightOf(name)

\* lines 214-220: analysisQuality = len(scores) / 10
QualityBonus(scores) ==
  LET n == Cardinality(DOMAIN scores)
  IN IF RLe(Hundredths(80), Rat(n, 10)) THEN Hundredths(105)
     ELSE IF RLt(Rat(n, 10), Hundredths(50)) THEN Hundredths(95) ELSE RInt(1)

\* a final score left as computed
Unclamped(finalScore) == finalScore

\* lines 227-232: "Clamp auf 0-1 Bereich"
Clamp01(finalScore) ==
  IF RLt(RInt(1), finalScore) THEN RInt(1)
  ELSE IF RLt(finalScore, RInt(0)) THEN RInt(0) ELSE finalScore

calculateConsistency(scores) ==
  LET n == Cardinality(DOMAIN scores)
      mean == RDiv(RSum(scores, DOMAIN scores), RInt(n))
      sq == [m \in DOMAIN scores |-> RMul(RSub(scores[m], mean), RSub(scores[m], mean))]
      variance == RDiv(RSum(sq, DOMAIN scores), RInt(n))
  IN IF n < 2 THEN Hundredths(50) ELSE RMax(RInt(0), RSub(RInt(1), variance))

calculateConfidence(scores, totalMethods) ==
  IF totalMethods = 0 THEN Hundredths(50)
  ELSE LET methodConfidence == Rat(Cardinality(DOMAIN scores), totalMethods)
           confidence == RAdd(RMul(methodConfidence, Hundredths(70)),
                              RMul(calculateConsistency(scores), Hundredths(30)))
       IN IF RLt(confidence, Hundredths(50)) THEN Hundredths(50)
          ELSE IF RLt(Hundredths(99), confidence) THEN Hundredths(99) ELSE confidence

\* determineBalancedVerdict with the labels of its two middle bands exchanged
determineBalancedVerdictSwapped(score, scores) ==
  LET adj == IF Cardinality(DOMAIN scores) < 4 THEN 5 ELSE 0
      confidence == calculateConfidence(scores, Cardinality(DOMAIN scores))
  IN IF RLe(Hundredths(75 + adj), score)
     THEN [verdict |-> "AI Generated", confidence |-> confidence]
     ELSE IF RLe(Hundredths(60 + adj), score)
     THEN [verdict |-> "Likely Authentic", confidence |-> confidence]
     ELSE IF RLe(Hundredths(59 + adj), score)
     THEN [verdict |-> "Likely AI Generated", confidence |-> confidence]
     ELSE [verdict |-> "Authentic", confidence |-> confidence]

\* returns the label and the confidence
determineBalancedVerdict(score, scores) ==
  LET baseConfidence == calculateConfidence(scores, Cardinality(DOMAIN scores))
      adj == IF Cardinality(DOMAIN scores) < 4 THEN 5 ELSE 0
  IN IF RLe(Hundredths(75 + adj), score)
     THEN [verdict |-> "AI Generated",
           confidence |-> RMin(Hundredths(95), RAdd(baseConfidence, Hundredths(15)))]
     ELSE IF RLe(Hundredths(60 + adj), score)
     THEN [verdict |-> "Likely AI Generated",
           confidence |-> RMin(Hundredths(85), RAdd(baseConfidence, Hundredths(10)))]
     ELSE IF RLe(Hundredths(59 + adj), score)
     THEN [verdict |-> "Likely Authentic",
           confidence |-> RMin(Hundredths(85), RAdd(baseConfidence, Hundredths(10)))]
     ELSE [verdict |-> "Authentic",
           confidence |-> RMin(Hundredths(40), RAdd(baseConfidence, Hundredths(15)))]

\* calculator.go 498-544: the package's second determineBalancedVerdict, with
\* thresholds in percent moved by the number of strong per-method scores
determineBalancedVerdictPercent(score, scores) ==
  LET high == Cardinality({n \in DOMAIN scores : RLe(Hundredths(70), scores[n])})
      low == Cardinality({n \in DOMAIN scores : ~RLe(Hundredths(70), scores[n])
                                                  /\ RLe(scores[n], Hundredths(30))})
      total == Cardinality(DOMAIN scores)
      baseConfidence ==
        IF total > 0 THEN RAdd(Hundredths(50), RMul(Rat(high + low, total), Hundredths(40)))
        ELSE Hundredths(60)
      adj == IF high >= 3 THEN -5 ELSE IF low >= 3 THEN 5 ELSE 0
      scorePercent == RMul(score, RInt(100))
  IN IF RLe(RInt(80 + adj), scorePercent)
     THEN [verdict |-> "Very Likely AI Generated",
           confidence |-> RMin(Hundredths(95), RAdd(baseConfidence, Hundredths(25)))]
     ELSE IF RLe(RInt(60 + adj), scorePercent)
     THEN [verdict |-> "Likely AI Generated",
           confidence |-> RMin(Hundredths(90), RAdd(baseConfidence, Hundredths(15)))]
     ELSE IF RLe(RInt(55 + adj), scorePercent)
     THEN [verdict |-> "Possibly AI Generated",
           confidence |-> RMin(Hundredths(80), baseConfidence)]
     ELSE IF RLe(RInt(20 + adj), scorePercent)
     THEN [verdict |-> "Likely Authentic",
           confidence |-> RMin(Hundredths(85), RAdd(baseConfidence, Hundredths(10)))]
     ELSE [verdict |-> "Very Likely Authentic",
           confidence |-> RMin(Hundredths(90), RAdd(baseConfidence, Hundredths(20)))]

\* the two declarations of determineBalancedVerdict the package holds, by the
\* file that declares them
VerdictDeclarations == {"determination.go", "calculator.go"}
DeclaredVerdict(file, score, scores) ==
  IF file = "determination.go" THEN determineBalancedVerdict(score, scores)
  ELSE determineBalancedVerdictPercent(score, scores)

\* the labels of each declaration from most authentic to most AI, and the
\* score (in hundredths) from which each label is given: the constants of the
\* if-chains, moved by thresholdAdjustment
LabelScale(file) ==
  IF file = "determination.go"
  THEN <<"Authentic", "Likely Authentic", "Likely AI Generated", "AI Generated">>
  ELSE <<"Very Likely Authentic", "Likely Authentic", "Possibly AI Generated",
         "Likely AI Generated", "Very Likely AI Generated">>
thresholdAdjustment(file, scores) ==
  IF file = "determination.go"
  THEN IF Cardinality(DOMAIN scores) < 4 THEN 5 ELSE 0
  ELSE IF Cardinality({n \in DOMAIN scores : RLe(Hundredths(70), scores[n])}) >= 3 THEN -5
  ELSE IF Cardinality({n \in DOMAIN scores : RLe(scores[n], Hundredths(30))}) >= 3 THEN 5
  ELSE 0
Thresholds(file, scores) ==
  LET adj == thresholdAdjustment(file, scores)
  IN IF file = "determination.go" THEN <<0, 59 + adj, 60 + adj, 75 + adj>>
     ELSE <<0, 20 + adj, 55 + adj, 60 + adj, 80 + adj>>

\* the verdict, probability and confidence fields of the map returned, with
\* the finalScore the probability is computed from
AnalysisFailed ==
  [verdict |-> "Analysis Failed", probability |-> RInt(0), confidence |-> RInt(0),
   finalScore |-> RInt(0)]

\* lines 162-196: the adaptive weights of the stages the loop does not skip
AdaptiveWeights(calibratedScores) ==
  MakeMap([n \in Weighted(calibratedScores) |-> AdaptiveWeight(n, calibratedScores[n])])
TotalWeight(calibratedScores) ==
  RSum(AdaptiveWeights(calibratedScores), Weighted(calibratedScores))

\* lines 209-224: baseScore * patternBoost * qualityBonus, for totalWeight > 0
ScoreBeforeClamp(scores) ==
  LET calibratedScores == applyBalancedCalibration(scores)
      aw == AdaptiveWeights(calibratedScores)
      weightedSum == RSum([n \in DOMAIN aw |-> RMul(calibratedScores[n], aw[n])], DOMAIN aw)
      baseScore == RDiv(weightedSum, RSum(aw, DOMAIN aw))
  IN RMul(RMul(baseScore, calculateAdvancedBoost(calibratedScores)), QualityBonus(scores))

\* scores, calibratedScores, finalScore and the verdict are locals of the Go
\* function: each is computed once and then only read
CalculateOverallVerdict(results) ==
  LET Decide(scores, calibratedScores) ==
        IF DefinitiveFound(scores)
        THEN [verdict |-> "AI Generated", probability |-> RInt(100),
              confidence |-> Hundredths(95), finalScore |-> RInt(1)]
        ELSE IF TotalWeight(calibratedScores) = RInt(0) THEN AnalysisFailed
        ELSE CHOOSE out \in
               UNION {{[verdict |-> v.verdict, probability |-> RMul(finalScore, RInt(100)),
                        confidence |-> v.confidence, finalScore |-> finalScore] :
                         v \in {determineBalancedVerdict(finalScore, calibratedScores)}} :
                      finalScore \in {Clamp01(ScoreBeforeClamp(scores))}} : TRUE
  IN CHOOSE out \in
       UNION {{Decide(scores, calibratedScores) :
                 calibratedScores \in {applyBalancedCalibration(scores)}} :
              scores \in {CollectScores(results)}} : TRUE

\* ---------------------------------- pipeline: extractConfidenceScore
\* m[key].(float64), and m[outer].(map)[inner].(float64)
Float64At(m, key) ==
  IF Has(m, key) /\ m[key].type = "float"
  THEN [ok |-> TRUE, val |-> Hundredths(m[key].v)] ELSE [ok |-> FALSE, val |-> RInt(0)]
NestedFloat64At(m, outer, inner) ==
  IF IsMap(Lookup(m, outer)) THEN Float64At(m[outer].v, inner)
  ELSE [ok |-> FALSE, val |-> RInt(0)]
\* "for _, value := range dataMap": the entries that hold
\* compression_ai_analysis.ai_probability
NestedCompression(m) ==
  {k \in DOMAIN m : IsMap(m[k]) /\ NestedFloat64At(m[k].v, "compression_ai_analysis", "ai_probability").ok}

\* pipelines.go 482-596 (exported as ExtractConfidenceScore)
extractConfidenceScore(data) ==
  IF ~IsMap(data) THEN Ignore
  ELSE LET m == data.v
           color == Float64At(m, "ai_color_score")
           advanced == NestedFloat64At(m, "advanced_assessment", "advanced_ai_probability")
           compression == NestedFloat64At(m, "compression_ai_analysis", "ai_probability")
           overall == NestedFloat64At(m, "overall_assessment", "ai_probability_score")
           c2pa == Float64At(m, "score")
           lighting == NestedFloat64At(m, "lighting_analysis", "ai_lighting_score")
           object == NestedFloat64At(m, "object_analysis", "ai_coherence_score")
           probability == Float64At(m, "probability")
       IN IF color.ok THEN color.val
          ELSE IF advanced.ok THEN advanced.val
          ELSE IF compression.ok THEN compression.val
          ELSE IF NestedCompression(m) # {}
          THEN LET k == CHOOSE x \in NestedCompression(m) : TRUE
               IN NestedFloat64At(m[k].v, "compression_ai_analysis", "ai_probability").val
          ELSE IF overall.ok THEN overall.val
          ELSE IF c2pa.ok THEN RDiv(c2pa.val, RInt(100))
          ELSE IF lighting.ok THEN lighting.val
          ELSE IF object.ok THEN object.val
          ELSE IF Has(m, "prediction") /\ m["prediction"].type = "string" /\ probability.ok
          THEN IF m["prediction"].v = "fake" THEN probability.val
               ELSE RSub(RInt(1), probability.val)
          ELSE Ignore

\* ------------------------------------- verdict: the loops, in visiting order
\* a short-circuit on the metadata stage alone
IsDefinitiveMetadataOnly(name, score) == name = "metadata" /\ RLe(Hundredths(95), score)

\* lines 117-128: "if name == "metadata" && score >= 0.95", the same for c2pa
IsDefinitive(name, score) == name \in {"metadata", "c2pa"} /\ RLe(Hundredths(95), score)

\* a statement of the reasoning slice: the stage it names and its wording
Statement(stage, wording) == [stage |-> stage, wording |-> wording]
NothingSeen == [scores |-> EmptyMap, definitive |-> FALSE, reasoning |-> EmptyBag]

\* lines 63-130: "for name, result := range results.Results" in the order the
\* map is visited, up to the break at the first definitive score.  The
\* reasoning slice is kept as the bag of its statements.
RECURSIVE VisitResults(_, _, _, _)
VisitResults(results, order, i, seen) ==
  IF i > Len(order) \/ seen.definitive THEN seen
  ELSE LET name == order[i]
           score == StageScore(name, results[name].v)
       IN IF ~IsMap(results[name]) \/ ~RLe(RInt(0), score)
          THEN VisitResults(results, order, i + 1, seen)
          ELSE VisitResults(results, order, i + 1,
                 [scores |-> Put(seen.scores, name, score),
                  definitive |-> IsDefinitive(name, score),
                  reasoning |->
                    IF IsDefinitive(name, score)
                    THEN seen.reasoning (+) SetToBag({Statement(name, "definitive")})
                    ELSE seen.reasoning])

\* lines 190-196: the statement of a stage the weighted loop did not skip
Wording(score) ==
  IF RLe(Hundredths(70), score) THEN "Strong AI indicators"
  ELSE IF RLe(score, Hundredths(30)) THEN "Authenticity indicators"
  ELSE "Moderate signals"
WeightedReasoning(calibratedScores) ==
  SetToBag({Statement(n, Wording(calibratedScores[n])) : n \in Weighted(calibratedScores)})

\* CalculateOverallVerdict with the order in which results.Results is
\* visited: the verdict, probability, confidence, reasoning and scores of the
\* map returned
OverallVerdictReport(results, order) ==
  LET seen == VisitResults(results, order, 1, NothingSeen)
      calibratedScores == applyBalancedCalibration(seen.scores)
      finalScore == Clamp01(ScoreBeforeClamp(seen.scores))
      v == determineBalancedVerdict(finalScore, calibratedScores)
  IN IF seen.definitive
     THEN [verdict |-> "AI Generated", probability |-> RInt(100),
           confidence |-> Hundredths(95), finalScore |-> RInt(1),
           reasoning |-> seen.reasoning, scores |-> seen.scores]
     ELSE IF TotalWeight(calibratedScores) = RInt(0)
     THEN [verdict |-> "Analysis Failed", probability |-> RInt(0), confidence |-> RInt(0),
           finalScore |-> RInt(0),
           reasoning |-> SetToBag({Statement("", "Technical error during analysis")}),
           scores |-> seen.scores]
     ELSE [verdict |-> v.verdict, probability |-> RMul(finalScore, RInt(100)),
           confidence |-> v.confidence, finalScore |-> finalScore,
           reasoning |-> seen.reasoning (+) WeightedReasoning(calibratedScores),
           scores |-> seen.scores]

\* ------------------------------------------------------------ the state
VARIABLES
  now,               \* time.Now(), in ticks
  items,             \* globalCache.items: key -> CacheItem
  structs,           \* heap: the PipelineResult struct that invocation r allocated
  maps,              \* heap: the Results map that invocation r made
  arrays,            \* heap: the backing array of the StagesRun slice of invocation r
  earlyExitEnabled,  \* AnalysisPipeline.earlyExitEnabled
  inv,               \* the RunAnalysis invocations: position, locals, return
  handler,           \* uploadHandler: the results it holds and the verdict it computed
  metrics,           \* the MetricsRecorder: whether the pipeline holds one, and its calls
  mu,                \* globalCache.mu: the goroutines holding the RWMutex
  callers            \* goroutines inside a method of AnalysisCache or of Metrics

vars ==
  <<now, items, structs, maps, arrays, earlyExitEnabled, inv, handler, metrics, mu, callers>>

Runs == 1..MaxRuns
Ptr(r) == [type |-> "ptr", v |-> r]
NoStruct ==
  [Results |-> 0, StagesRun |-> [arr |-> 0, len |-> 0], ProcessTime |-> 0,
   EarlyExit |-> FALSE, Confidence |-> [num |-> 0, den |-> 1], CacheHit |-> FALSE]
\* &PipelineResult{Results: make(map...), StagesRun: []string{}, EarlyExit: false}
NewResult(r) == [NoStruct EXCEPT !.Results = r, !.StagesRun = [arr |-> r, len |-> 0]]

\* what a reader of the struct sees through its map and slice references
View(st, mp, ar, r) ==
  [Results |-> mp[st[r].Results],
   StagesRun |-> SubSeq(ar[st[r].StagesRun.arr], 1, st[r].StagesRun.len),
   ProcessTime |-> st[r].ProcessTime, EarlyExit |-> st[r].EarlyExit,
   Confidence |-> st[r].Confidence, CacheHit |-> st[r].CacheHit]
NoView ==
  [Results |-> EmptyMap, StagesRun |-> <<>>, ProcessTime |-> 0, EarlyExit |-> FALSE,
   Confidence |-> [num |-> 0, den |-> 1], CacheHit |-> FALSE]

NoReturn == [kind |-> "none", err |-> "", snap |-> NoView]
ReturnError(e) == [kind |-> "err", err |-> e, snap |-> NoView]
ReturnResult(v) == [kind |-> "ok", err |-> "", snap |-> v]

IdleRun ==
  [pc |-> "idle", path |-> "", key |-> <<>>, start |-> 0, ctxDone |-> FALSE,
   cancelPc |-> "", exitOn |-> FALSE, idx |-> 0, fast |-> EmptyMap, log |-> <<>>,
   failures |-> 0, budget |-> 0, down |-> FALSE, stored |-> FALSE, tampered |-> FALSE,
   ret |-> NoReturn, ap |-> 0, cleared |-> FALSE, own |-> EmptyMap, seen |-> {}]

NoVerdict ==
  [verdict |-> "", probability |-> RInt(0), confidence |-> RInt(0), finalScore |-> RInt(0)]
IdleHandler == [pc |-> "idle", results |-> EmptyMap, out |-> NoVerdict]

\* the recorder: whether ap.metrics is set, the calls of RecordCacheHit and
\* RecordCacheMiss by the invocation they were made for, and the invocations
\* whose response uploadHandler has written
NewMetrics(wired) ==
  [recorder |-> wired, hits |-> [r \in Runs |-> 0], misses |-> [r \in Runs |-> 0],
   handled |-> [r \in Runs |-> FALSE]]
RecordCacheHit(m, r) == [m EXCEPT !.hits[r] = @ + 1]
RecordCacheMiss(m, r) == [m EXCEPT !.misses[r] = @ + 1]
\* the business counters of Metrics, and the verdicts RecordVerdict was given
BusinessMetrics ==
  [TotalAnalyses |-> 0, AIDetectedCount |-> 0, EarlyExitCount |-> 0,
   AIDetectionRate |-> [num |-> 0, den |-> 1], EarlyExitRate |-> [num |-> 0, den |-> 1],
   verdicts |-> <<>>]
\* the verdict strings RecordVerdict counts as an AI detection
CountedAsAI ==
  {"AI Generated (Confirmed)", "Very Likely AI Generated", "Likely AI Generated",
   "Possibly AI Generated"}
\* Metrics.RecordVerdict(verdict, isEarlyExit)
RecordVerdict(m, verdict, isEarlyExit) ==
  LET total == m.TotalAnalyses + 1
      ai == IF verdict \in CountedAsAI THEN m.AIDetectedCount + 1 ELSE m.AIDetectedCount
      early == IF isEarlyExit THEN m.EarlyExitCount + 1 ELSE m.EarlyExitCount
  IN [m EXCEPT !.TotalAnalyses = total, !.AIDetectedCount = ai, !.EarlyExitCount = early,
               !.AIDetectionRate = [num |-> ai, den |-> total],
               !.EarlyExitRate = [num |-> early, den |-> total],
               !.verdicts = Append(@, [verdict |-> verdict, early |-> isEarlyExit])]
\* sync.RWMutex, zero value
Unlocked == [writer |-> 0, readers |-> {}]
NoCallers == <<>>

\* NewAnalysisPipeline, NewAnalysisCache
InitPipeline ==
  /\ now = 0
  /\ items = EmptyMap
  /\ structs = [r \in Runs |-> NoStruct]
  /\ maps = [r \in Runs |-> EmptyMap]
  /\ arrays = [r \in Runs |-> <<>>]
  /\ earlyExitEnabled = TRUE
  /\ inv = [r \in Runs |-> IdleRun]
  /\ mu = Unlocked

Init ==
  InitPipeline /\ handler = IdleHandler /\ metrics = NewMetrics(FALSE) /\ callers = NoCallers

\* -------------------------------------------------------------- helpers
Min(S) == CHOOSE x \in S : \A y \in S : x <= y
\* the first index >= i among S, or one past the end of the stage list
FirstAtOrAfter(i, S) ==
  IF \E j \in S : j >= i THEN Min({j \in S : j >= i}) ELSE NumStages + 1
FastIdx == {j \in 1..NumStages : SortedStages[j].FastTrack}
\* "if stage.FastTrack && result.Results[stage.Name] != nil { continue }"
SkippedInFull(results, j) ==
  SortedStages[j].FastTrack /\ Lookup(results, SortedStages[j].Name) # Nil
FullIdx(results) == {j \in 1..NumStages : ~SkippedInFull(results, j)}
\* the orders in which "for name, data := range fastTrackResults" may visit
RangeOrders(m) ==
  {s \in [1..Cardinality(DOMAIN m) -> DOMAIN m] :
     \A i, j \in 1..Cardinality(DOMAIN m) : i # j => s[i] # s[j]}
\* an analyzer error that neither the parent context nor a dead toolchain forces
CountsAsFailure(r, name, o) ==
  ~o.ok /\ ~inv[r].down /\ ~(inv[r].ctxDone /\ HonoursCtx(name))
Logged(r, name, o) ==
  Append(inv[r].log, [stage |-> name, ok |-> o.ok, late |-> inv[r].ctxDone])

\* ------------------------------------------------------------- RunAnalysis
\* lines 216-223: startTime, generateCacheKey.  d: every analyzer of this
\* invocation fails (an image no tool can read); budget: how many analyzer
\* calls of this invocation may fail by themselves
\* The pipeline an invocation runs on is named by the invocation that built
\* it (inv[r].ap); the pipeline's own fields are kept with that invocation:
\* cleared and own are ap.cache after ClearCache, seen the invocations that
\* had returned when ClearCache was called.
StartOn(r, ap, p, d, budget) ==
  /\ inv[r].pc = "idle"
  /\ LET k == generateCacheKey(p) IN
     inv' = [inv EXCEPT ![r] =
               IF k.err
               THEN [@ EXCEPT !.pc = "done", !.path = p, !.ap = ap, !.ret = ReturnError("key")]
               ELSE [@ EXCEPT !.pc = "lookup", !.path = p, !.ap = ap, !.key = k.key,
                              !.start = now, !.down = d, !.budget = budget]]
  /\ UNCHANGED <<mu, callers, metrics, handler, now, items, structs, maps, arrays, earlyExitEnabled>>

\* RunAnalysis on a pipeline that NewAnalysisPipeline has just built
Start(r, p, d, budget) == StartOn(r, r, p, d, budget)

\* ap.cache of the pipeline of invocation r: the cache of getGlobalCache, or
\* the one ClearCache put in its place
CacheOf(r) == IF inv[inv[r].ap].cleared THEN inv[inv[r].ap].own ELSE items

\* a hit that sets CacheHit through the cached pointer before copying it
CacheHitReturnInPlace(r) ==
  /\ inv[r].pc = "lookup"
  /\ LET g == CacheGet(CacheOf(r), inv[r].key, now) IN
     /\ g.found /\ g.data.type = "ptr"
     /\ LET marked == [structs EXCEPT ![g.data.v].CacheHit = TRUE]
            st == [marked EXCEPT ![r] =
                     [marked[g.data.v] EXCEPT !.ProcessTime = now - inv[r].start]] IN
        /\ structs' = st
        /\ inv' = [inv EXCEPT ![r].pc = "done",
                              ![r].ret = ReturnResult(View(st, maps, arrays, r))]
  /\ metrics' = IF metrics.recorder THEN RecordCacheHit(metrics, r) ELSE metrics
  /\ UNCHANGED <<mu, callers, handler, now, items, maps, arrays, earlyExitEnabled>>

\* lines 233-247: a hit returns a copy of the cached struct
CacheHitReturn(r) ==
  /\ inv[r].pc = "lookup"
  /\ LET g == CacheGet(CacheOf(r), inv[r].key, now) IN
     /\ g.found /\ g.data.type = "ptr"
     /\ LET st == [structs EXCEPT ![r] =
                     [structs[g.data.v] EXCEPT !.CacheHit = TRUE,
                                               !.ProcessTime = now - inv[r].start]] IN
        /\ structs' = st
        /\ inv' = [inv EXCEPT ![r].pc = "done",
                              ![r].ret = ReturnResult(View(st, maps, arrays, r))]
  /\ metrics' = IF metrics.recorder THEN RecordCacheHit(metrics, r) ELSE metrics
  /\ UNCHANGED <<mu, callers, handler, now, items, maps, arrays, earlyExitEnabled>>

\* lines 251-263 and 304-315: a miss enters runFullAnalysis, which reads
\* IsEarlyExitEnabled() to choose the first phase
CacheMiss(r) ==
  /\ inv[r].pc = "lookup"
  /\ ~CacheGet(CacheOf(r), inv[r].key, now).found
  /\ structs' = [structs EXCEPT ![r] = NewResult(r)]
  /\ maps' = [maps EXCEPT ![r] = EmptyMap]
  /\ arrays' = [arrays EXCEPT ![r] = <<>>]
  /\ inv' = [inv EXCEPT ![r] =
               IF earlyExitEnabled
               THEN [@ EXCEPT !.pc = "fast", !.exitOn = TRUE, !.idx = FirstAtOrAfter(1, FastIdx)]
               ELSE [@ EXCEPT !.pc = "full", !.exitOn = FALSE,
                              !.idx = FirstAtOrAfter(1, FullIdx(EmptyMap))]]
  /\ metrics' = IF metrics.recorder THEN RecordCacheMiss(metrics, r) ELSE metrics
  /\ UNCHANGED <<mu, callers, handler, now, items, earlyExitEnabled>>

\* runFastTrackStages, one fast-track stage per step (lines 412-428)
FastStage(r) ==
  /\ inv[r].pc = "fast" /\ inv[r].idx <= NumStages
  /\ LET name == SortedStages[inv[r].idx].Name IN
     \E o \in AnalyzerOutcomes(name, inv[r].path, inv[r].ctxDone, inv[r].down,
                                inv[r].failures < inv[r].budget) :
       inv' = [inv EXCEPT
                 ![r].log = Logged(r, name, o),
                 ![r].failures = IF CountsAsFailure(r, name, o) THEN @ + 1 ELSE @,
                 ![r].fast = IF o.ok THEN Put(@, name, o.val) ELSE @,
                 ![r].idx = FirstAtOrAfter(inv[r].idx + 1, FastIdx)]
  /\ UNCHANGED <<mu, callers, metrics, handler, now, items, structs, maps, arrays, earlyExitEnabled>>

\* a RunAnalysis that keeps early-exit results out of the cache
StoreAndReturnUnlessEarly(r, st, mp, ar) ==
  LET st2 == [st EXCEPT ![r].CacheHit = FALSE, ![r].ProcessTime = now - inv[r].start] IN
  /\ structs' = st2 /\ maps' = mp /\ arrays' = ar
  /\ items' = IF st[r].EarlyExit THEN items
              ELSE CacheSet(items, inv[r].key, Ptr(r), CacheTTL, now)
  /\ inv' = [inv EXCEPT ![r].pc = "done", ![r].stored = ~st[r].EarlyExit,
                        ![r].ret = ReturnResult(View(st2, mp, ar, r))]

\* a RunAnalysis that, finding an entry under its key, writes its own fields
\* into the stored struct and leaves that struct's Results map in place
StoreAndReturnIntoEntry(r, st, mp, ar) ==
  LET st2 == [st EXCEPT ![r].CacheHit = FALSE, ![r].ProcessTime = now - inv[r].start]
      g == CacheGet(items, inv[r].key, now)
  IN
  /\ maps' = mp /\ arrays' = ar
  /\ structs' = IF g.found
                 THEN [st2 EXCEPT ![g.data.v] = [st2[r] EXCEPT !.Results = st2[g.data.v].Results]]
                 ELSE st2
  /\ items' = IF g.found THEN items
              ELSE CacheSet(items, inv[r].key, Ptr(r), CacheTTL, now)
  /\ inv' = [inv EXCEPT ![r].pc = "done", ![r].stored = TRUE,
                        ![r].ret = ReturnResult(View(st2, mp, ar, r))]

\* RunAnalysis lines 268-283 after runFullAnalysis returned result r
StoreAndReturn(r, st, mp, ar) ==
  LET st2 == [st EXCEPT ![r].CacheHit = FALSE, ![r].ProcessTime = now - inv[r].start] IN
  /\ structs' = st2 /\ maps' = mp /\ arrays' = ar
  /\ items' = IF inv[inv[r].ap].cleared THEN items
              ELSE CacheSet(items, inv[r].key, Ptr(r), CacheTTL, now)
  /\ inv' = [inv EXCEPT ![r].pc = "done", ![r].stored = TRUE,
                        ![r].ret = ReturnResult(View(st2, mp, ar, r)),
                        ![inv[r].ap].own =
                           IF inv[inv[r].ap].cleared
                           THEN CacheSet(@, inv[r].key, Ptr(r), CacheTTL, now) ELSE @]

\* lines 318-333: merge the fast-track results in map-iteration order, then
\* shouldEarlyExit; on an exit the result goes back to RunAnalysis
MergeFast(r) ==
  /\ inv[r].pc = "fast" /\ inv[r].idx > NumStages
  /\ \E order \in RangeOrders(inv[r].fast) :
       LET mp == [maps EXCEPT ![r] = inv[r].fast]
           ar == [arrays EXCEPT ![r] = order]
           st == [structs EXCEPT ![r].StagesRun = [arr |-> r, len |-> Len(order)]]
       IN IF shouldEarlyExit(mp[r], earlyExitEnabled)
          THEN StoreAndReturn(r, [st EXCEPT ![r].EarlyExit = TRUE,
                                            ![r].Confidence = calculateEarlyConfidence(mp[r])],
                              mp, ar)
          ELSE /\ structs' = st /\ maps' = mp /\ arrays' = ar
               /\ inv' = [inv EXCEPT ![r].pc = "full",
                                     ![r].idx = FirstAtOrAfter(1, FullIdx(mp[r]))]
               /\ UNCHANGED items
  /\ UNCHANGED <<mu, callers, metrics, handler, now, earlyExitEnabled>>

\* lines 339-371: one stage of the full phase, up to the cancellation check
FullStage(r) ==
  /\ inv[r].pc = "full" /\ inv[r].idx <= NumStages
  /\ LET name == SortedStages[inv[r].idx].Name
         len == structs[r].StagesRun.len IN
     \E o \in AnalyzerOutcomes(name, inv[r].path, inv[r].ctxDone, inv[r].down,
                                inv[r].failures < inv[r].budget) :
       IF o.ok
       THEN /\ maps' = [maps EXCEPT ![r] = Put(@, name, o.val)]
            /\ arrays' = [arrays EXCEPT ![r] = Append(SubSeq(@, 1, len), name)]
            /\ structs' = [structs EXCEPT ![r].StagesRun = [arr |-> r, len |-> len + 1]]
            /\ inv' = [inv EXCEPT ![r].log = Logged(r, name, o), ![r].pc = "check"]
       ELSE /\ inv' = [inv EXCEPT
                         ![r].log = Logged(r, name, o),
                         ![r].failures = IF CountsAsFailure(r, name, o) THEN @ + 1 ELSE @,
                         ![r].idx = FirstAtOrAfter(inv[r].idx + 1, FullIdx(maps[r]))]
            /\ UNCHANGED <<structs, maps, arrays>>
  /\ UNCHANGED <<mu, callers, metrics, handler, now, items, earlyExitEnabled>>

\* lines 373-380: select on ctx.Done() after a stage that completed
CheckCancelled(r) ==
  /\ inv[r].pc = "check"
  /\ inv' = [inv EXCEPT ![r] =
               IF inv[r].ctxDone
               THEN [@ EXCEPT !.pc = "done", !.ret = ReturnError("cancelled")]
               ELSE [@ EXCEPT !.pc = "full",
                              !.idx = FirstAtOrAfter(inv[r].idx + 1, FullIdx(maps[r]))]]
  /\ UNCHANGED <<mu, callers, metrics, handler, now, items, structs, maps, arrays, earlyExitEnabled>>

\* lines 383-390 and 268-283: the loop is over
Finish(r) ==
  /\ inv[r].pc = "full" /\ inv[r].idx > NumStages
  /\ StoreAndReturn(r, [structs EXCEPT ![r].Confidence = calculateFinalConfidence(maps[r])],
                    maps, arrays)
  /\ UNCHANGED <<mu, callers, metrics, handler, now, earlyExitEnabled>>

\* the caller's context is cancelled, or its deadline passes
Cancel(r) ==
  /\ inv[r].pc \in {"lookup", "fast", "full", "check"}
  /\ ~inv[r].ctxDone
  /\ inv' = [inv EXCEPT ![r].ctxDone = TRUE, ![r].cancelPc = inv[r].pc]
  /\ UNCHANGED <<mu, callers, metrics, handler, now, items, structs, maps, arrays, earlyExitEnabled>>

\* The caller of invocation r writes through the *PipelineResult it was given:
\* result.Results["note"] = "x", result.StagesRun[0] = "x", or
\* result.EarlyExit = !result.EarlyExit.
CallerMutate(r, what) ==
  /\ inv[r].pc = "done" /\ inv[r].ret.kind = "ok" /\ ~inv[r].tampered
  /\ what = "slice" => structs[r].StagesRun.len > 0
  /\ maps' = IF what = "map"
              THEN [maps EXCEPT ![structs[r].Results] = Put(@, "note", GoString("x"))]
              ELSE maps
  /\ arrays' = IF what = "slice"
                THEN [arrays EXCEPT ![structs[r].StagesRun.arr][1] = "x"]
                ELSE arrays
  /\ structs' = IF what = "field"
                 THEN [structs EXCEPT ![r].EarlyExit = ~@]
                 ELSE structs
  /\ inv' = [inv EXCEPT ![r].tampered = TRUE]
  /\ UNCHANGED <<mu, callers, metrics, handler, now, items, earlyExitEnabled>>

Tick ==
  /\ now < MaxTime
  /\ now' = now + 1
  /\ UNCHANGED <<mu, callers, metrics, handler, items, structs, maps, arrays, earlyExitEnabled, inv>>

\* SetEarlyExitEnabled
SetEarlyExitEnabled(enabled) ==
  /\ enabled # earlyExitEnabled
  /\ earlyExitEnabled' = enabled
  /\ UNCHANGED <<mu, callers, metrics, handler, now, items, structs, maps, arrays, inv>>

\* one invocation at a time, as one caller issues them
Sequential(r) == \A q \in Runs : q < r => inv[q].pc = "done"
Quiet == \A q \in Runs : inv[q].pc \in {"idle", "done"}
AtLookup == \E q \in Runs : inv[q].pc = "lookup"

\* the steps of runFullAnalysis and the return through RunAnalysis
MissSteps(r) ==
  \/ CacheMiss(r)
  \/ FastStage(r)
  \/ MergeFast(r)
  \/ FullStage(r)
  \/ CheckCancelled(r)
  \/ Finish(r)

\* Spec: invocations one after another on the shared cache; every analyzer
\* works and nobody cancels.  The clock advances while an invocation waits to
\* read the cache.
Next ==
  \/ \E r \in Runs, p \in {"a.jpg", "b.jpg", "c.jpg", "gone.jpg"} :
       Sequential(r) /\ Start(r, p, FALSE, 0)
  \/ \E r \in Runs : CacheHitReturn(r)
  \/ \E r \in Runs : MissSteps(r)
  \/ AtLookup /\ Tick
  \/ \E b \in BOOLEAN : Quiet /\ SetEarlyExitEnabled(b)

Spec == Init /\ [][Next]_vars

\* SpecMut: Spec with callers that write to the results they received.
NextMut ==
  \/ Next
  \/ \E r \in Runs, what \in {"map", "slice", "field"} : CallerMutate(r, what)

SpecMut == Init /\ [][NextMut]_vars

\* ------------------------------------------------- verdict specification
\* The Results maps handed to CalculateOverallVerdict: per stage, no entry or
\* one of a few analyzer values (scores in and out of [0,1], values that carry
\* no score, values that are no map).
Entry(name, val) == name :> val
ScoreAt(key, x) == GoMap(key :> GoFloat(x))
Assessed(outer, inner, x) == GoMap(outer :> GoMap(inner :> GoFloat(x)))
ArtifactsInputs ==
  {EmptyMap} \cup
  {Entry("artifacts", Assessed("overall_assessment", "ai_probability_score", x)) :
     x \in {10, 90, 250}}
AIModelInputs ==
  {EmptyMap} \cup
  {Entry("ai-model", GoMap(("prediction" :> GoString("fake")) @@ ("probability" :> GoFloat(x)))) :
     x \in {10, 90}}
CompressionInputs ==
  {EmptyMap} \cup
  {Entry("compression", GoMap("file" :> Assessed("compression_ai_analysis", "ai_probability", x))) :
     x \in {20, -50}}
C2PAInputs ==
  {EmptyMap, Entry("c2pa", Nil), Entry("c2pa", C2PALow), Entry("c2pa", C2PAHigh)}
MetadataInputs ==
  {EmptyMap, Entry("metadata", MetaCamera),
   Entry("metadata", GoMap("has_metadata" :> GoBool(TRUE)))}
AdvancedInputs ==
  {EmptyMap,
   Entry("advanced-artifacts", Assessed("advanced_assessment", "advanced_ai_probability", 80))}
LightingInputs ==
  {EmptyMap, Entry("lighting-analysis", Assessed("lighting_analysis", "ai_lighting_score", 80))}
\* the pixel, colour and object analyzers: all three or none
PixelColorObjectInputs ==
  {EmptyMap,
   Entry("pixel-analysis", Assessed("overall_assessment", "ai_probability_score", 70)) @@
   Entry("color-balance", ScoreAt("ai_color_score", 50)) @@
   Entry("object-coherence", ScoreAt("ai_probability", 40))}
\* the stages whose values carry no score: both or none
NoSignalInputs == {EmptyMap, Entry("exif", EXIFData) @@ Entry("metadata-quick", MetaCamera)}

VerdictInputs ==
  {a @@ b @@ c @@ d @@ e @@ f @@ g @@ h @@ i :
     a \in ArtifactsInputs, b \in AIModelInputs, c \in CompressionInputs, d \in C2PAInputs,
     e \in MetadataInputs, f \in AdvancedInputs, g \in LightingInputs,
     h \in PixelColorObjectInputs, i \in NoSignalInputs}

\* uploadHandler: verdict.CalculateOverallVerdict(results)
Aggregate ==
  /\ handler.pc = "results"
  /\ handler' = [handler EXCEPT !.pc = "verdict",
                                 !.out = CalculateOverallVerdict(handler.results)]
  /\ UNCHANGED <<mu, callers, metrics, now, items, structs, maps, arrays, earlyExitEnabled, inv>>

InitVerdict ==
  /\ InitPipeline /\ metrics = NewMetrics(FALSE) /\ callers = NoCallers
  /\ handler \in {[pc |-> "results", results |-> m, out |-> NoVerdict] : m \in VerdictInputs}

NextVerdict == Aggregate

SpecVerdict == InitVerdict /\ [][NextVerdict]_vars

\* README.md, "Scoring Interpretation": the label of a score in whole percent
ScoringInterpretation(percent) ==
  IF percent <= 19 THEN "Very Likely Authentic"
  ELSE IF percent <= 39 THEN "Likely Authentic"
  ELSE IF percent <= 59 THEN "Possibly AI Generated"
  ELSE IF percent <= 79 THEN "Very Likely AI Generated"
  ELSE "Almost Certainly AI Generated"

\* ------------------------------------------------- visiting specification
\* SpecVisit: CalculateOverallVerdict on Results maps of up to five stages,
\* under every order in which the map can be visited.  The values include
\* results that carry no score: maps without the score field, a c2pa result
\* without claims, a metadata result without has_metadata, and the exif
\* stage's struct.
NoScoreField == GoMap("error" :> GoString("script failed"))
VisitC2PA ==
  {EmptyMap, Entry("c2pa", C2PAHigh), Entry("c2pa", C2PALow),
   Entry("c2pa", GoMap(("claims_found" :> GoBool(FALSE)) @@ ("score" :> GoFloat(0))))}
VisitMetadata ==
  {EmptyMap, Entry("metadata", MetaCamera),
   Entry("metadata", GoMap("has_metadata" :> GoBool(TRUE)))}
VisitAIModel ==
  {EmptyMap, Entry("ai-model", NoScoreField)} \cup
  {Entry("ai-model", GoMap(("prediction" :> GoString(label)) @@ ("probability" :> GoFloat(90)))) :
     label \in {"fake", "real"}}
VisitArtifacts ==
  {EmptyMap, Entry("artifacts", NoScoreField),
   Entry("artifacts", Assessed("overall_assessment", "ai_probability_score", 80))}
VisitEXIF == {EmptyMap, Entry("exif", EXIFData)}
VisitInputs ==
  {a @@ b @@ c @@ d @@ e :
     a \in VisitC2PA, b \in VisitMetadata, c \in VisitAIModel, d \in VisitArtifacts,
     e \in VisitEXIF}

InitVisit ==
  /\ InitPipeline /\ metrics = NewMetrics(FALSE) /\ callers = NoCallers
  /\ handler \in {[pc |-> "results", results |-> m, order |-> o, out |-> NoVerdict] :
                     m \in VisitInputs, o \in UNION {RangeOrders(x) : x \in VisitInputs}}
  /\ handler.order \in RangeOrders(handler.results)

\* uploadHandler: verdict.CalculateOverallVerdict(results), the map visited in
\* the order Go picked
AggregateVisiting ==
  /\ handler.pc = "results"
  /\ handler' = [handler EXCEPT !.pc = "verdict",
                                 !.out = OverallVerdictReport(handler.results, handler.order)]
  /\ UNCHANGED <<mu, callers, metrics, now, items, structs, maps, arrays, earlyExitEnabled, inv>>

NextVisit == AggregateVisiting

SpecVisit == InitVisit /\ [][NextVisit]_vars

\* ------------------------------------------------- label specification
\* SpecLabel: determineBalancedVerdict on a final score in [0,1] (hundredths)
\* and a set of per-method scores, under either declaration of the package.
MaxMethods == 5
ScoreGrid == 0..100
MethodNames ==
  <<"artifacts", "compression", "lighting-analysis", "pixel-analysis", "color-balance",
    "advanced-artifacts", "object-coherence">>
\* h strong-positive, l strong-negative and the rest moderate per-method scores
MethodScores ==
  {MakeMap([m \in {MethodNames[i] : i \in 1..n} |->
              LET i == CHOOSE j \in 1..n : MethodNames[j] = m
              IN Hundredths(IF i <= h THEN 90 ELSE IF i <= h + l THEN 10 ELSE 50)]) :
     <<n, h, l>> \in {t \in (0..MaxMethods) \X (0..MaxMethods) \X (0..MaxMethods) :
                        t[2] + t[3] <= t[1]}}

InitLabel ==
  /\ InitPipeline /\ metrics = NewMetrics(FALSE) /\ callers = NoCallers
  /\ handler \in {[pc |-> "scored", results |-> EmptyMap, out |-> NoVerdict,
                    score |-> x, scores |-> m, file |-> ""] :
                     x \in ScoreGrid, m \in MethodScores}

\* calculator.go line 234: determineBalancedVerdict(finalScore, calibratedScores)
Determine(file) ==
  /\ handler.pc = "scored"
  /\ LET v == DeclaredVerdict(file, Hundredths(handler.score), handler.scores)
     IN handler' = [handler EXCEPT !.pc = "labelled", !.file = file,
                                    !.out.verdict = v.verdict,
                                    !.out.confidence = v.confidence,
                                    !.out.finalScore = Hundredths(handler.score),
                                    !.out.probability = RInt(handler.score)]
  /\ UNCHANGED <<mu, callers, metrics, now, items, structs, maps, arrays, earlyExitEnabled, inv>>

NextLabel == \E file \in VerdictDeclarations : Determine(file)

SpecLabel == InitLabel /\ [][NextLabel]_vars

\* ----------------------------------------------- recorder specification
\* uploadHandler after RunSecureAnalyses returned (part_004 lines 86-104): an
\* error is answered with RecordError("pipeline") alone; a result is counted
\* as a hit or a miss by its CacheHit field.  The pipeline of
\* RunSecureAnalyses comes from NewAnalysisPipeline and holds no recorder.
RecordOutcome(r) ==
  /\ ~metrics.recorder
  /\ inv[r].pc = "done" /\ ~metrics.handled[r]
  /\ metrics' =
       LET m == [metrics EXCEPT !.handled[r] = TRUE]
       IN IF inv[r].ret.kind # "ok" THEN m
          ELSE IF inv[r].ret.snap.CacheHit THEN RecordCacheHit(m, r)
          ELSE RecordCacheMiss(m, r)
  /\ UNCHANGED <<mu, callers, handler, now, items, structs, maps, arrays, earlyExitEnabled, inv>>

\* the caller of invocation r has its answer: from uploadHandler, or from
\* RunAnalysis itself for a caller that built the pipeline with a recorder
Answered(r) == inv[r].pc = "done" /\ (metrics.recorder \/ metrics.handled[r])

\* SpecRecorder: requests one after another, each of which may be cancelled,
\* through uploadHandler (NewAnalysisPipeline) or through a pipeline built by
\* NewAnalysisPipelineWithCache.
InitRecorder ==
  /\ InitPipeline /\ handler = IdleHandler /\ callers = NoCallers
  /\ metrics \in {NewMetrics(wired) : wired \in BOOLEAN}

NextRecorder ==
  \/ \E r \in Runs, p \in {"a.jpg", "b.jpg", "gone.jpg"} :
       (\A q \in Runs : q < r => Answered(q)) /\ Start(r, p, FALSE, 0)
  \/ \E r \in Runs : CacheHitReturn(r)
  \/ \E r \in Runs : MissSteps(r)
  \/ \E r \in Runs : Cancel(r)
  \/ \E r \in Runs : RecordOutcome(r)

SpecRecorder == InitRecorder /\ [][NextRecorder]_vars

\* -------------------------------------------------- cache specification
\* SpecCache: goroutines of concurrent invocations inside AnalysisCache.Get
\* and AnalysisCache.Set on one key of the cache that getGlobalCache hands to
\* every pipeline.  A CacheItem is written and read field by field, as the
\* memory is; the RWMutex is what makes the item one unit.
MaxCallers == 3
Goroutines == 1..MaxCallers
SharedKey == generateCacheKey("a.jpg").key
\* the zero time.Time, before every instant of the model
ZeroTime == -1
NotRead == [now |-> 0, exists |-> FALSE, Data |-> Nil, ExpiresAt |-> ZeroTime, found |-> FALSE]
IdleCaller == [op |-> "none", pc |-> "idle", data |-> Nil, expiresAt |-> ZeroTime, got |-> NotRead]

\* a reader that does not wait for the writer
CanRLockAlways(m) == TRUE

\* c.mu.RLock() returns once no writer holds the mutex
CanRLock(m) == m.writer = 0
\* c.mu.Lock() returns once nobody holds the mutex
CanLock(m) == m.writer = 0 /\ m.readers = {}

\* RunAnalysis line 277, ap.cache.Set(cacheKey, result, 30*time.Minute), with
\* the *PipelineResult of this goroutine's invocation
CallSet(g) ==
  /\ callers[g].pc = "idle"
  /\ callers' = [callers EXCEPT ![g] = [@ EXCEPT !.op = "Set", !.pc = "lock", !.data = Ptr(g)]]
  /\ UNCHANGED <<mu, metrics, handler, now, items, structs, maps, arrays, earlyExitEnabled, inv>>

\* RunAnalysis line 233, ap.cache.Get(cacheKey)
CallGet(g) ==
  /\ callers[g].pc = "idle"
  /\ callers' = [callers EXCEPT ![g] = [@ EXCEPT !.op = "Get", !.pc = "rlock"]]
  /\ UNCHANGED <<mu, metrics, handler, now, items, structs, maps, arrays, earlyExitEnabled, inv>>

\* Set: c.mu.Lock()
Lock(g) ==
  /\ callers[g].pc = "lock" /\ CanLock(mu)
  /\ mu' = [mu EXCEPT !.writer = g]
  /\ callers' = [callers EXCEPT ![g].pc = "stamp"]
  /\ UNCHANGED <<metrics, handler, now, items, structs, maps, arrays, earlyExitEnabled, inv>>

\* Set: expiresAt := time.Now().Add(ttl)
Stamp(g) ==
  /\ callers[g].pc = "stamp"
  /\ callers' = [callers EXCEPT ![g].expiresAt = now + CacheTTL, ![g].pc = "Data"]
  /\ UNCHANGED <<mu, metrics, handler, now, items, structs, maps, arrays, earlyExitEnabled, inv>>

\* Set: c.items[key] = CacheItem{Data: data, ExpiresAt: expiresAt,
\* CreatedAt: time.Now()}, one field per step
StoreField(g) ==
  /\ callers[g].pc \in {"Data", "ExpiresAt", "CreatedAt"}
  /\ LET old == IF Has(items, SharedKey) THEN items[SharedKey]
                ELSE [Data |-> Nil, ExpiresAt |-> ZeroTime, CreatedAt |-> ZeroTime]
     IN CASE callers[g].pc = "Data" ->
               /\ items' = Put(items, SharedKey, [old EXCEPT !.Data = callers[g].data])
               /\ callers' = [callers EXCEPT ![g].pc = "ExpiresAt"]
          [] callers[g].pc = "ExpiresAt" ->
               /\ items' = Put(items, SharedKey, [old EXCEPT !.ExpiresAt = callers[g].expiresAt])
               /\ callers' = [callers EXCEPT ![g].pc = "CreatedAt"]
          [] callers[g].pc = "CreatedAt" ->
               /\ items' = Put(items, SharedKey, [old EXCEPT !.CreatedAt = now])
               /\ callers' = [callers EXCEPT ![g].pc = "unlock"]
  /\ UNCHANGED <<mu, metrics, handler, now, structs, maps, arrays, earlyExitEnabled, inv>>

\* Set: defer c.mu.Unlock()
Unlock(g) ==
  /\ callers[g].pc = "unlock"
  /\ mu' = [mu EXCEPT !.writer = IF @ = g THEN 0 ELSE @]
  /\ callers' = [callers EXCEPT ![g].pc = "done"]
  /\ UNCHANGED <<metrics, handler, now, items, structs, maps, arrays, earlyExitEnabled, inv>>

\* Get: c.mu.RLock()
RLock(g) ==
  /\ callers[g].pc = "rlock" /\ CanRLock(mu)
  /\ mu' = [mu EXCEPT !.readers = @ \cup {g}]
  /\ callers' = [callers EXCEPT ![g].pc = "now"]
  /\ UNCHANGED <<metrics, handler, now, items, structs, maps, arrays, earlyExitEnabled, inv>>

\* Get: now := time.Now()
ReadNow(g) ==
  /\ callers[g].pc = "now"
  /\ callers' = [callers EXCEPT ![g].got.now = now, ![g].pc = "item"]
  /\ UNCHANGED <<mu, metrics, handler, now, items, structs, maps, arrays, earlyExitEnabled, inv>>

\* Get: item, exists := c.items[key], the copy made one field per step
LoadField(g) ==
  /\ callers[g].pc \in {"item", "item.ExpiresAt"}
  /\ callers' =
       IF callers[g].pc = "item"
       THEN IF Has(items, SharedKey)
            THEN [callers EXCEPT ![g].got.exists = TRUE,
                                 ![g].got.Data = items[SharedKey].Data,
                                 ![g].pc = "item.ExpiresAt"]
            ELSE [callers EXCEPT ![g].pc = "return"]
       ELSE [callers EXCEPT ![g].got.ExpiresAt = items[SharedKey].ExpiresAt,
                            ![g].pc = "return"]
  /\ UNCHANGED <<mu, metrics, handler, now, items, structs, maps, arrays, earlyExitEnabled, inv>>

\* Get: "if !exists || now.After(item.ExpiresAt) { return nil, false }",
\* "return item.Data, true", and the deferred c.mu.RUnlock()
RUnlock(g) ==
  /\ callers[g].pc = "return"
  /\ mu' = [mu EXCEPT !.readers = @ \ {g}]
  /\ callers' = [callers EXCEPT
                   ![g].got.found = callers[g].got.exists
                                      /\ ~Expired(callers[g].got.now, callers[g].got),
                   ![g].pc = "done"]
  /\ UNCHANGED <<metrics, handler, now, items, structs, maps, arrays, earlyExitEnabled, inv>>

InitCache ==
  /\ InitPipeline /\ handler = IdleHandler /\ metrics = NewMetrics(FALSE)
  /\ callers = [g \in Goroutines |-> IdleCaller]

NextCache ==
  \/ \E g \in Goroutines : CallSet(g)
  \/ \E g \in Goroutines : CallGet(g)
  \/ \E g \in Goroutines : Lock(g)
  \/ \E g \in Goroutines : Stamp(g)
  \/ \E g \in Goroutines : StoreField(g)
  \/ \E g \in Goroutines : Unlock(g)
  \/ \E g \in Goroutines : RLock(g)
  \/ \E g \in Goroutines : ReadNow(g)
  \/ \E g \in Goroutines : LoadField(g)
  \/ \E g \in Goroutines : RUnlock(g)
  \/ Tick

SpecCache == InitCache /\ [][NextCache]_vars

\* ---------------------------------------------------- sort specification
\* SpecSort: getSortedStages on pipelines whose stage list is the first stages
\* of getDefaultStages under every assignment of priorities, and on the list
\* of getDefaultStages itself.
MaxStages == 4
MaxPriority == 3
RegisteredLists ==
  {getDefaultStages} \cup
  UNION {{[i \in 1..n |-> [getDefaultStages[i] EXCEPT !.Priority = f[i]]] :
            f \in [1..n -> 1..MaxPriority]} : n \in 0..MaxStages}

\* NewAnalysisPipeline: ap.stages, and what was declared
InitSort ==
  /\ InitPipeline /\ metrics = NewMetrics(FALSE) /\ callers = NoCallers
  /\ handler \in {[pc |-> "registered", results |-> EmptyMap, out |-> NoVerdict,
                    declared |-> s, stages |-> s, sorted |-> <<>>] : s \in RegisteredLists}

\* runFullAnalysis line 312: stages := ap.getSortedStages(), which sorts a
\* copy of ap.stages
SortStages ==
  /\ handler.pc = "registered"
  /\ handler' = [handler EXCEPT !.pc = "sorted", !.sorted = getSortedStages(handler.stages)]
  /\ UNCHANGED <<mu, callers, metrics, now, items, structs, maps, arrays, earlyExitEnabled, inv>>

NextSort == SortStages

SpecSort == InitSort /\ [][NextSort]_vars

\* ------------------------------------------------- upload specification
\* uploadHandler after RunSecureAnalyses returned for request r (part_004
\* lines 86-129): an error is answered at once; a result is counted as a hit
\* or a miss, judged by CalculateOverallVerdict, and its verdict string goes
\* to RecordVerdict with the result's EarlyExit.
uploadHandler(r) ==
  /\ inv[r].pc = "done" /\ ~metrics.handled[r]
  /\ IF inv[r].ret.kind # "ok"
     THEN /\ metrics' = [metrics EXCEPT !.handled[r] = TRUE]
          /\ UNCHANGED handler
     ELSE LET results == inv[r].ret.snap
              verdictData == CalculateOverallVerdict(results.Results)
              m == [metrics EXCEPT !.handled[r] = TRUE]
              counted == IF results.CacheHit THEN RecordCacheHit(m, r)
                         ELSE RecordCacheMiss(m, r)
          IN /\ metrics' = RecordVerdict(counted, verdictData.verdict, results.EarlyExit)
             /\ handler' = [pc |-> "verdict", results |-> results.Results, out |-> verdictData]
  /\ UNCHANGED <<mu, callers, now, items, structs, maps, arrays, earlyExitEnabled, inv>>

\* SpecUpload: uploads one after another through uploadHandler; every request
\* builds its pipeline with NewAnalysisPipeline on the shared cache.
InitUpload ==
  /\ InitPipeline /\ handler = IdleHandler /\ callers = NoCallers
  /\ metrics = NewMetrics(FALSE) @@ BusinessMetrics

NextUpload ==
  \/ \E r \in Runs, p \in Paths :
       (\A q \in Runs : q < r => metrics.handled[q]) /\ Start(r, p, FALSE, 0)
  \/ \E r \in Runs : CacheHitReturn(r)
  \/ \E r \in Runs : MissSteps(r)
  \/ \E r \in Runs : uploadHandler(r)

SpecUpload == InitUpload /\ [][NextUpload]_vars

\* ------------------------------------------------ metrics specification
\* SpecMetrics: goroutines inside the methods of one Metrics value.  A method
\* is the sequence of its operations on m.mu, the calls it makes to other
\* methods included: "RLock"/"RUnlock", and for a recorder "Lock" (the writer
\* announces itself; from then on RLock waits), "LockWait" (Lock returns once
\* the readers that held the mutex have left), "Store" and "Unlock".
ReadLocked(body) == <<"RLock">> \o body \o <<"RUnlock">>
WriteLocked == <<"Lock", "LockWait", "Store", "Unlock">>
MetricsGetters ==
  {"GetPipelineMetrics", "GetUploadMetrics", "GetSystemMetrics", "GetMetricsSummary"}
MetricsRecorders == {"RecordDuration", "RecordSuccess", "RecordCacheHit", "RecordVerdict"}
MetricsProgram(op) ==
  LET GetAverageDuration == ReadLocked(<<>>)
      GetErrorRate == ReadLocked(<<>>)
      GetCurrentMemoryUsage == ReadLocked(<<>>)
      GetCurrentCPUUsage == ReadLocked(<<>>)
      GetBusinessMetrics == ReadLocked(<<>>)
      GetOverallMetrics == ReadLocked(<<>>)
      GetPipelineMetrics == ReadLocked(GetAverageDuration \o GetErrorRate)
      GetUploadMetrics == ReadLocked(GetAverageDuration \o GetErrorRate)
      GetSystemMetrics == ReadLocked(GetCurrentMemoryUsage \o GetCurrentCPUUsage)
  IN CASE op = "GetPipelineMetrics" -> GetPipelineMetrics
       [] op = "GetUploadMetrics" -> GetUploadMetrics
       [] op = "GetSystemMetrics" -> GetSystemMetrics
       [] op = "GetMetricsSummary" ->
            GetBusinessMetrics \o GetOverallMetrics \o GetPipelineMetrics
              \o GetUploadMetrics \o GetSystemMetrics
       [] op \in MetricsRecorders -> WriteLocked

\* what a recorder stores for the upload of request 1
Recorded(m, op) ==
  CASE op = "RecordDuration" -> [m EXCEPT !.AnalysisDuration = @ + 1]
    [] op = "RecordSuccess" -> [m EXCEPT !.AnalysisCount = @ + 1]
    [] op = "RecordCacheHit" -> RecordCacheHit(m, 1)
    [] op = "RecordVerdict" -> RecordVerdict(m, "Likely AI Generated", FALSE)

NotCalling == [op |-> "", prog |-> <<>>, returned |-> FALSE]
\* NewMetrics: m.mu unlocked (w: the writer inside Lock or holding the mutex,
\* readers: the read locks each goroutine holds), the "pipeline" counters
InitMetrics ==
  /\ InitPipeline /\ handler = IdleHandler
  /\ metrics = NewMetrics(FALSE) @@ BusinessMetrics @@
                 [mu |-> [w |-> 0, held |-> FALSE, readers |-> [g \in Goroutines |-> 0]],
                  AnalysisCount |-> 0, AnalysisDuration |-> 0]
  /\ callers = [g \in Goroutines |-> NotCalling]

Frame == UNCHANGED <<mu, handler, now, items, structs, maps, arrays, earlyExitEnabled, inv>>
AtOp(g, o) == callers[g].prog # <<>> /\ Head(callers[g].prog) = o
Advance(g) == callers' = [callers EXCEPT ![g].prog = Tail(@)]

CallMetrics(g, op) ==
  /\ callers[g] = NotCalling
  /\ callers' = [callers EXCEPT ![g] = [op |-> op, prog |-> MetricsProgram(op), returned |-> FALSE]]
  /\ UNCHANGED metrics /\ Frame

\* m.mu.RLock(): waits while a writer is inside Lock or holds the mutex
MetricsRLock(g) ==
  /\ AtOp(g, "RLock") /\ metrics.mu.w = 0
  /\ metrics' = [metrics EXCEPT !.mu.readers[g] = @ + 1]
  /\ Advance(g) /\ Frame

MetricsRUnlock(g) ==
  /\ AtOp(g, "RUnlock")
  /\ metrics' = [metrics EXCEPT !.mu.readers[g] = @ - 1]
  /\ Advance(g) /\ Frame

\* m.mu.Lock(), first half: one writer at a time announces itself
MetricsLock(g) ==
  /\ AtOp(g, "Lock") /\ metrics.mu.w = 0
  /\ metrics' = [metrics EXCEPT !.mu.w = g]
  /\ Advance(g) /\ Frame

\* m.mu.Lock(), second half: wait for the departing readers
MetricsLockWait(g) ==
  /\ AtOp(g, "LockWait") /\ \A r \in Goroutines : metrics.mu.readers[r] = 0
  /\ metrics' = [metrics EXCEPT !.mu.held = TRUE]
  /\ Advance(g) /\ Frame

MetricsStore(g) ==
  /\ AtOp(g, "Store")
  /\ metrics' = Recorded(metrics, callers[g].op)
  /\ Advance(g) /\ Frame

MetricsUnlock(g) ==
  /\ AtOp(g, "Unlock")
  /\ metrics' = [metrics EXCEPT !.mu.w = 0, !.mu.held = FALSE]
  /\ Advance(g) /\ Frame

MetricsReturn(g) ==
  /\ callers[g].op # "" /\ callers[g].prog = <<>> /\ ~callers[g].returned
  /\ callers' = [callers EXCEPT ![g].returned = TRUE]
  /\ UNCHANGED metrics /\ Frame

NextMetrics ==
  \/ \E g \in Goroutines, op \in MetricsGetters \cup MetricsRecorders : CallMetrics(g, op)
  \/ \E g \in Goroutines : MetricsRLock(g)
  \/ \E g \in Goroutines : MetricsRUnlock(g)
  \/ \E g \in Goroutines : MetricsLock(g)
  \/ \E g \in Goroutines : MetricsLockWait(g)
  \/ \E g \in Goroutines : MetricsStore(g)
  \/ \E g \in Goroutines : MetricsUnlock(g)
  \/ \E g \in Goroutines : MetricsReturn(g)

SpecMetrics == InitMetrics /\ [][NextMetrics]_vars

\* ---------------------------------------------- ClearCache specification
\* ClearCache on the pipeline that invocation ap built: ap.cache is never nil,
\* and is replaced by a new, empty AnalysisCache
ClearCache(ap) ==
  /\ inv[ap].pc # "idle" /\ inv[ap].ap = ap
  /\ inv' = [inv EXCEPT ![ap].cleared = TRUE, ![ap].own = EmptyMap,
                        ![ap].seen = {q \in Runs : inv[q].pc = "done"}]
  /\ UNCHANGED <<mu, callers, metrics, handler, now, items, structs, maps, arrays, earlyExitEnabled>>

\* SpecClear: invocations one after another, each on a new pipeline or on one
\* built earlier, and ClearCache calls between them.
NextClear ==
  \/ \E r \in Runs, ap \in Runs, p \in {"a.jpg", "b.jpg", "c.jpg"} :
       /\ Sequential(r)
       /\ ap = r \/ (ap < r /\ inv[ap].ap = ap)
       /\ StartOn(r, ap, p, FALSE, 0)
  \/ \E r \in Runs : CacheHitReturn(r)
  \/ \E r \in Runs : MissSteps(r)
  \/ \E ap \in Runs : Quiet /\ ClearCache(ap)
  \/ AtLookup /\ Tick

SpecClear == Init /\ [][NextClear]_vars

\* ------------------------------------------------ early-exit flag switching
\* SpecFlag: invocations one after another with working analyzers, while
\* another goroutine calls SetEarlyExitEnabled at any moment, also between the
\* two reads of the flag by runFullAnalysis and shouldEarlyExit.
NextFlag ==
  \/ \E r \in Runs, p \in {"a.jpg", "c.jpg", "d.jpg"} :
       Sequential(r) /\ Start(r, p, FALSE, 0)
  \/ \E r \in Runs : CacheHitReturn(r)
  \/ \E r \in Runs : MissSteps(r)
  \/ \E b \in BOOLEAN : SetEarlyExitEnabled(b)

SpecFlag == Init /\ [][NextFlag]_vars

\* ---------------------------------------------- concurrent invocations
\* SpecRace: request goroutines inside RunAnalysis at the same time, their
\* steps interleaved; cache.Get and cache.Set are each one step under the
\* cache's mutex.
Racing == 2
InFlight == {q \in Runs : inv[q].pc \notin {"idle", "done"}}
NextRace ==
  \/ \E r \in Runs, p \in {"a.jpg", "b.jpg"} :
       Cardinality(InFlight) < Racing /\ Start(r, p, FALSE, 0)
  \/ \E r \in Runs : CacheHitReturn(r)
  \/ \E r \in Runs : MissSteps(r)

SpecRace == Init /\ [][NextRace]_vars

\* SpecRun: one invocation on an empty cache, with failing analyzers and a
\* caller that may cancel at any point.
NextRun ==
  \/ \E p \in Paths, d \in BOOLEAN : Start(1, p, d, MaxFailures)
  \/ MissSteps(1)
  \/ Cancel(1)
  \/ \E b \in BOOLEAN : inv[1].pc = "idle" /\ SetEarlyExitEnabled(b)

SpecRun == Init /\ [][NextRun]_vars

\* ================================================================ claims
Done(r) == inv[r].pc = "done"
ReturnedOk(r) == Done(r) /\ inv[r].ret.kind = "ok"
\* the analyzer calls of invocation r, as positions of its log
Calls(r) == 1..Len(inv[r].log)
Invocations(r, name) == Cardinality({i \in Calls(r) : inv[r].log[i].stage = name})
Attempted(r) == {inv[r].log[i].stage : i \in Calls(r)}
StartedLate(r) == {i \in Calls(r) : inv[r].log[i].late}
InStagesRun(r, name) ==
  \E i \in 1..Len(inv[r].ret.snap.StagesRun) : inv[r].ret.snap.StagesRun[i] = name
CancelledInStages(r) == inv[r].ctxDone /\ inv[r].cancelPc \in {"fast", "full", "check"}

\* C1 (as claimed): a run whose context is cancelled while stages execute
\* returns the cancellation error, stores nothing in the cache, and starts no
\* stage after the cancellation beyond the one the cancellation raced with.
C1_CancelAborts ==
  \A r \in Runs :
    (Done(r) /\ CancelledInStages(r)) =>
      /\ inv[r].ret = ReturnError("cancelled")
      /\ ~inv[r].stored
      /\ Cardinality(StartedLate(r)) <= 1

\* C6 (as claimed): within one invocation every analyzer is called at most once.
C6_InvokedAtMostOnce ==
  \A r \in Runs, name \in StageNames : Invocations(r, name) <= 1

\* C3 (as claimed): with early exit enabled, a returned result whose
\* metadata-quick or c2pa entry is definitive evidence has EarlyExit set and
\* no non-fast-track stage was invoked or recorded.
DefinitiveIn(results) ==
  \/ Has(results, "metadata-quick") /\ hasDefinitiveMetadataEvidence(results["metadata-quick"])
  \/ Has(results, "c2pa") /\ hasDefinitiveC2PAEvidence(results["c2pa"])
C3_DefinitiveEvidenceExits ==
  \A r \in Runs :
    (ReturnedOk(r) /\ inv[r].exitOn /\ DefinitiveIn(inv[r].ret.snap.Results)) =>
      /\ inv[r].ret.snap.EarlyExit
      /\ DOMAIN inv[r].ret.snap.Results \subseteq FastTrackNames
      /\ \A name \in StageNames \ FastTrackNames : ~InStagesRun(r, name)
      /\ Attempted(r) \subseteq FastTrackNames

\* C5 (as claimed): an analyzer error under a live parent context is local:
\* the run does not fail because of it, the stage is absent from Results and
\* StagesRun, every stage is still attempted, and the only errors RunAnalysis
\* returns are the fingerprint error and the cancellation error.
LiveFailures(r) == {i \in Calls(r) : ~inv[r].log[i].ok /\ ~inv[r].log[i].late}
C5_StageFailureIsLocal ==
  \A r \in Runs :
    Done(r) =>
      /\ inv[r].ret.kind = "err" =>
            \/ inv[r].ret.err = "key"
            \/ inv[r].ret.err = "cancelled" /\ inv[r].ctxDone
      /\ (ReturnedOk(r) /\ ~inv[r].ctxDone) =>
            /\ \A i \in LiveFailures(r) :
                  /\ ~Has(inv[r].ret.snap.Results, inv[r].log[i].stage)
                  /\ ~InStagesRun(r, inv[r].log[i].stage)
            /\ \/ inv[r].ret.snap.EarlyExit /\ Attempted(r) = FastTrackNames
               \/ Attempted(r) = StageNames

\* C8 (as claimed): a run in which every analyzer call failed, so that no
\* stage completed, returns an error and no PipelineResult.
NoStageCompleted(r) ==
  Done(r) /\ inv[r].log # <<>> /\ \A i \in Calls(r) : ~inv[r].log[i].ok
C8_TotalFailureIsError ==
  \A r \in Runs : NoStageCompleted(r) => inv[r].ret.kind = "err"
\* the time at which invocation r read (and, on a miss, wrote) the cache
At(r) == inv[r].start + inv[r].ret.snap.ProcessTime
SameContent(q, r) == FileBytes(inv[q].path) = FileBytes(inv[r].path)

\* the time at which the entry that invocation q read or wrote was stored: q's
\* own time when q missed, and the time of the miss it goes back to when q hit
\* (a hit does not renew the entry)
StoredAt(q) ==
  IF ~inv[q].ret.snap.CacheHit THEN At(q)
  ELSE LET m == CHOOSE m \in Runs :
                  /\ m < q /\ ReturnedOk(m) /\ SameContent(m, q)
                  /\ ~inv[m].ret.snap.CacheHit
                  /\ \A n \in Runs :
                       (n < q /\ ReturnedOk(n) /\ SameContent(n, q)
                        /\ ~inv[n].ret.snap.CacheHit) => n <= m
       IN  At(m)

\* C2: an invocation on B, after a successful invocation on A with the same
\* bytes under another path and within the TTL window of the entry A's
\* invocation read or wrote, is a cache hit and returns A's Results,
\* StagesRun, EarlyExit and Confidence.
C2_SameContentHits ==
  \A q, r \in Runs :
    (/\ q < r /\ ReturnedOk(q) /\ ReturnedOk(r)
     /\ inv[q].path # inv[r].path /\ SameContent(q, r)
     /\ At(r) <= StoredAt(q) + CacheTTL) =>
      /\ inv[r].ret.snap.CacheHit
      /\ inv[r].ret.snap.Results = inv[q].ret.snap.Results
      /\ inv[r].ret.snap.StagesRun = inv[q].ret.snap.StagesRun
      /\ inv[r].ret.snap.EarlyExit = inv[q].ret.snap.EarlyExit
      /\ inv[r].ret.snap.Confidence = inv[q].ret.snap.Confidence

\* C2 witness: b.jpg hit the entry a.jpg made one tick earlier, after a full run
C2_HitUnderOtherPath ==
  \E q, r \in Runs :
    /\ q < r /\ ReturnedOk(q) /\ ReturnedOk(r)
    /\ inv[q].path = "a.jpg" /\ inv[r].path = "b.jpg"
    /\ ~inv[q].ret.snap.CacheHit /\ inv[r].ret.snap.CacheHit
    /\ At(r) = At(q) + 1
    /\ Len(inv[r].ret.snap.StagesRun) = NumStages

\* what Get does on the cache's contents at every time
GetTimes == 0..(MaxTime + CacheTTL)
VisibleWhile(t, item, live) ==
  IF live THEN [found |-> TRUE, data |-> item.Data] ELSE [found |-> FALSE, data |-> Nil]

C7_CacheHoldsOwnCopy ==
  \A k \in DOMAIN items :
    View(structs, maps, arrays, items[k].Data.v) = inv[items[k].Data.v].ret.snap
\* C8 (as claimed) is C8_TotalFailureIsError above.
\* C8 (amended): a run in which no stage completed returns, with a nil error,
\* an empty PipelineResult of confidence 0.5 and stores it in the cache; the
\* failure shows only in the verdict computed from it, "Analysis Failed".
C8_TotalFailureIsEmptyResult ==
  \A r \in Runs :
    NoStageCompleted(r) =>
      /\ inv[r].ret.kind = "ok"
      /\ inv[r].ret.snap.Results = EmptyMap
      /\ inv[r].ret.snap.StagesRun = <<>>
      /\ ~inv[r].ret.snap.EarlyExit
      /\ inv[r].ret.snap.Confidence.num = 50 * inv[r].ret.snap.Confidence.den
      /\ inv[r].stored
      /\ CalculateOverallVerdict(inv[r].ret.snap.Results) = AnalysisFailed

\* C8 witness: every analyzer was called and failed, and the run returned a result
C8_AllStagesFailed ==
  \E r \in Runs :
    /\ NoStageCompleted(r) /\ Attempted(r) = StageNames
    /\ ~inv[r].ctxDone /\ inv[r].ret.kind = "ok"

\* C9 (as claimed): the verdict is "Analysis Failed" with probability 0 and
\* confidence 0 when no stage yields a usable score, and a label computed
\* from the score whenever at least one stage yields one.
ScoreLabels == {"AI Generated", "Likely AI Generated", "Likely Authentic", "Authentic"}
C9_FailedIffNoUsableScore ==
  handler.pc = "verdict" =>
    IF DOMAIN CollectScores(handler.results) = {}
    THEN handler.out = AnalysisFailed
    ELSE handler.out.verdict \in ScoreLabels

\* C10: whatever the stage values, the final score is in [0,1], the
\* probability is the final score times 100 and so in [0,100], and the
\* confidence is in [0,1].
C10_ScoreAndConfidenceBounded ==
  handler.pc = "verdict" =>
    /\ RLe(RInt(0), handler.out.finalScore) /\ RLe(handler.out.finalScore, RInt(1))
    /\ handler.out.probability = RMul(handler.out.finalScore, RInt(100))
    /\ RLe(RInt(0), handler.out.probability) /\ RLe(handler.out.probability, RInt(100))
    /\ RLe(RInt(0), handler.out.confidence) /\ RLe(handler.out.confidence, RInt(1))

\* C10 witness: a raw score of 2.5 went in, the boosted score exceeded 1 and
\* the verdict reports exactly 1
C10_ClampedAtOne ==
  /\ handler.pc = "verdict"
  /\ ~DefinitiveFound(CollectScores(handler.results))
  /\ Has(CollectScores(handler.results), "artifacts")
  /\ RLt(RInt(1), CollectScores(handler.results)["artifacts"])
  /\ RLt(RInt(1), ScoreBeforeClamp(CollectScores(handler.results)))
  /\ handler.out.finalScore = RInt(1) /\ handler.out.probability = RInt(100)
\* the position of a label on the scale of its declaration
Position(file, label) == CHOOSE i \in 1..Len(LabelScale(file)) : LabelScale(file)[i] = label
Labelled == handler.pc = "labelled"
LabelAt(x) == DeclaredVerdict(handler.file, Hundredths(x), handler.scores).verdict
\* the bands of the threshold table that hold score x: from a label's
\* threshold up to the next label's
BandsHolding(file, scores, x) ==
  LET T == Thresholds(file, scores)
  IN {i \in 1..Len(T) : T[i] <= x /\ (i < Len(T) => x < T[i + 1])}

\* C11: for a fixed set of per-method scores the label is monotonic
\* non-decreasing in the final score (no higher score gets a label nearer to
\* authentic), and the thresholds partition [0,1]: every score lies in exactly
\* one band of the table, and the label given is that band's.
C11_LabelMonotonic ==
  Labelled =>
    /\ \A x \in ScoreGrid :
         handler.score <= x =>
           Position(handler.file, handler.out.verdict) <= Position(handler.file, LabelAt(x))
    /\ BandsHolding(handler.file, handler.scores, handler.score) =
         {Position(handler.file, handler.out.verdict)}

\* C11 witness: a score in the one-point band below "Likely AI Generated",
\* with the thresholds moved up for fewer than four methods
C11_NarrowBandLabelled ==
  /\ Labelled /\ handler.file = "determination.go"
  /\ Cardinality(DOMAIN handler.scores) < 4
  /\ handler.score = 64 /\ handler.out.verdict = "Likely Authentic"


\* C12 (as claimed): the label given for a final score is the one the README's
\* scoring table states for that score in percent.
C12_LabelsFollowReadme ==
  Labelled => handler.out.verdict = ScoringInterpretation(handler.score)


\* invocation r got past generateCacheKey, and its caller has its answer
ReachedCacheCheck(r) == Answered(r) /\ inv[r].key # <<>>
RanStages(r) == inv[r].log # <<>>
ReturnedCached(r) == inv[r].ret.kind = "ok" /\ inv[r].ret.snap.CacheHit

\* C13 (as claimed): for every invocation that reached the cache check,
\* exactly one of RecordCacheHit and RecordCacheMiss was called, once:
\* RecordCacheHit iff a cached result was returned, RecordCacheMiss iff the
\* invocation went on to run stages.
C13_ExactlyOneCacheRecord ==
  \A r \in Runs :
    ReachedCacheCheck(r) =>
      /\ metrics.hits[r] + metrics.misses[r] = 1
      /\ metrics.hits[r] = 1 <=> ReturnedCached(r)
      /\ metrics.misses[r] = 1 <=> RanStages(r)


\* the stages of invocation r whose analyzer returned a result, in the order
\* in which they were executed
Produced(r) ==
  LET ok == SelectSeq(inv[r].log, LAMBDA c : c.ok)
  IN [i \in 1..Len(ok) |-> ok[i].stage]
PriorityOf(name) ==
  getDefaultStages[CHOOSE i \in 1..NumStages : getDefaultStages[i].Name = name].Priority
ComputedHere(r) == ReturnedOk(r) /\ ~inv[r].ret.snap.CacheHit

\* C14 (as claimed): the StagesRun of a result computed on a cache miss lists
\* the keys of Results, each once, in the order in which the stages were
\* executed, which is ascending priority.
C14_StagesRunInExecutionOrder ==
  \A r \in Runs :
    ComputedHere(r) =>
      LET sr == inv[r].ret.snap.StagesRun IN
      /\ {sr[i] : i \in 1..Len(sr)} = DOMAIN inv[r].ret.snap.Results
      /\ \A i, j \in 1..Len(sr) : i # j => sr[i] # sr[j]
      /\ sr = Produced(r)
      /\ \A i, j \in 1..Len(sr) : i < j => PriorityOf(sr[i]) <= PriorityOf(sr[j])


\* the stages of the handler's Results whose value is a map with a score >= 0
Judged == handler.pc = "verdict"
ScoredStages ==
  {n \in DOMAIN handler.results :
     IsMap(handler.results[n]) /\ RLe(RInt(0), StageScore(n, handler.results[n].v))}
ScoreOf(n) == StageScore(n, handler.results[n].v)

\* C15: if the metadata or the c2pa stage of the result has a score >= 0.95,
\* the verdict is the fixed maximal one (AI Generated, probability 100,
\* confidence 0.95), whatever the other stages scored and in whatever order
\* the stages were visited.
C15_DefinitiveShortCircuit ==
  (Judged /\ \E n \in ScoredStages \cap {"metadata", "c2pa"} : RLe(Hundredths(95), ScoreOf(n))) =>
    /\ handler.out.verdict = "AI Generated"
    /\ handler.out.probability = RInt(100)
    /\ handler.out.confidence = Hundredths(95)

\* C15 witness: a c2pa score of 0.96 visited last, after a metadata score of 0
\* and an artifacts score of 0.8
C15_DefinitiveVisitedLast ==
  /\ Judged /\ Len(handler.order) >= 3
  /\ handler.order[Len(handler.order)] = "c2pa"
  /\ handler.results["c2pa"] = C2PAHigh
  /\ {"metadata", "artifacts"} \subseteq ScoredStages
  /\ handler.out.verdict = "AI Generated"


\* the field of a stage's result that its score function reads
ScoreKey(n) ==
  CASE n = "artifacts" -> "overall_assessment"
    [] n = "ai-model" -> "probability"
    [] n = "c2pa" -> "score"
    [] n = "metadata" -> "has_metadata"
    [] n = "exif" -> "has_camera_info"
\* a completed stage whose result carries no usable score
NoSignal(n) ==
  LET data == handler.results[n]
  IN \/ ~IsMap(data)
     \/ ~Has(data.v, ScoreKey(n))
     \/ n = "c2pa" /\ Has(data.v, "claims_found") /\ data.v["claims_found"] = GoBool(FALSE)

\* C16 (as claimed): a stage whose result carries no usable score is absent
\* from the reported scores and from the weighting, and no number stands in
\* for its score.
C16_NoSignalExcluded ==
  Judged =>
    \A n \in DOMAIN handler.results :
      NoSignal(n) =>
        /\ ~Has(handler.out.scores, n)
        /\ n \notin Weighted(applyBalancedCalibration(handler.out.scores))


\* the ai-model result of the handler's Results carries a label and a probability
AIModelReported ==
  /\ Judged /\ Has(handler.results, "ai-model") /\ IsMap(handler.results["ai-model"])
  /\ Has(handler.results["ai-model"].v, "prediction")
  /\ Has(handler.results["ai-model"].v, "probability")
  /\ Has(handler.out.scores, "ai-model")
\* the probability of being synthetic that a (label, probability) pair states
Synthetic(label, probability) ==
  IF label = "fake" THEN probability ELSE RSub(RInt(1), probability)

\* C17 (as claimed): the aggregator's ai-model score is the probability of
\* being synthetic: the reported probability under the label "fake", one minus
\* it otherwise, which is what ExtractConfidenceScore yields for the result.
C17_AIModelScoreIsSynthetic ==
  AIModelReported =>
    LET m == handler.results["ai-model"].v IN
    /\ handler.out.scores["ai-model"] = Synthetic(m["prediction"].v, Hundredths(m["probability"].v))
    /\ handler.out.scores["ai-model"] = extractConfidenceScore(handler.results["ai-model"])


\* no metadata or c2pa score of the handler's Results is definitive
NoShortCircuit ==
  Judged /\ \A n \in ScoredStages : ~IsDefinitive(n, ScoreOf(n))
StatementsOn(n) ==
  BagCardinality([s \in {x \in BagToSet(handler.out.reasoning) : x.stage = n} |->
                    CopiesIn(s, handler.out.reasoning)])

\* C18 (as claimed): without a definitive short-circuit the reasoning holds
\* exactly one statement for each stage that produced a score, the ai-model
\* stage included, worded by the strength of its score, and none for any
\* other stage.
C18_OneStatementPerScoringStage ==
  NoShortCircuit =>
    /\ \A n \in ScoredStages :
         /\ StatementsOn(n) = 1
         /\ BagIn(Statement(n, Wording(applyBalancedCalibration(handler.out.scores)[n])),
                  handler.out.reasoning)
    /\ \A s \in BagToSet(handler.out.reasoning) : s.stage \in ScoredStages


\* the (value, expiry) pairs that a Set has begun to write
WrittenWhole ==
  {[Data |-> callers[h].data, ExpiresAt |-> callers[h].expiresAt] :
     h \in {x \in Goroutines :
              callers[x].op = "Set"
              /\ callers[x].pc \in {"Data", "ExpiresAt", "CreatedAt", "unlock", "done"}}}
\* the item a Get copied out of the map
Copied(g) == [Data |-> callers[g].got.Data, ExpiresAt |-> callers[g].got.ExpiresAt]
HasItem(g) ==
  callers[g].op = "Get" /\ callers[g].pc \in {"return", "done"} /\ callers[g].got.exists

\* C19: under every interleaving of concurrent Get and Set calls, a Get
\* either finds nothing or works on a (value, expiry) pair that one Set wrote
\* whole: never a half-written entry, never the value of one Set with the
\* expiry of another.
C19_NoTornRead ==
  \A g \in Goroutines :
    /\ HasItem(g) => Copied(g) \in WrittenWhole
    /\ (callers[g].op = "Get" /\ callers[g].got.found) => HasItem(g)

\* C19 witness: a Get found the entry of the second of two Sets that wrote at
\* different times
C19_ReadAfterOverwrite ==
  \E g, h1, h2 \in Goroutines :
    /\ callers[g].op = "Get" /\ callers[g].pc = "done" /\ callers[g].got.found
    /\ callers[h1].op = "Set" /\ callers[h2].op = "Set"
    /\ callers[h1].pc = "done" /\ callers[h2].pc = "done"
    /\ callers[h1].expiresAt < callers[h2].expiresAt
    /\ Copied(g) = [Data |-> Ptr(h2), ExpiresAt |-> callers[h2].expiresAt]


\* the position of a stage in the list that was declared
DeclaredAt(stage) ==
  CHOOSE i \in 1..Len(handler.declared) : handler.declared[i].Name = stage.Name

\* C20: the order the runner uses is a permutation of the registered stages,
\* ascending by priority, with stages of equal priority in declaration order,
\* and computing it leaves the registered list as it was declared.
C20_StableSortOfACopy ==
  handler.pc = "sorted" =>
    LET s == handler.sorted IN
    /\ Len(s) = Len(handler.declared)
    /\ {s[i] : i \in 1..Len(s)} = {handler.declared[i] : i \in 1..Len(s)}
    /\ \A i, j \in 1..Len(s) : i < j => s[i].Priority <= s[j].Priority
    /\ \A i, j \in 1..Len(s) :
         (i < j /\ s[i].Priority = s[j].Priority) => DeclaredAt(s[i]) < DeclaredAt(s[j])
    /\ handler.stages = handler.declared

\* C20 witness: the default stages, where ai-model (declared last, priority 2)
\* is moved up to follow metadata
C20_DefaultStagesReordered ==
  /\ handler.pc = "sorted" /\ handler.declared = getDefaultStages
  /\ handler.sorted # handler.declared
  /\ handler.sorted[4].Name = "metadata" /\ handler.sorted[5].Name = "ai-model"


\* the stages of invocation r whose analyzer returned without an error
Completed(r) == {inv[r].log[i].stage : i \in {j \in Calls(r) : inv[r].log[j].ok}}
\* the results of the first j stages of StagesRun
FirstResults(v, j) == [n \in {v.StagesRun[i] : i \in 1..j} |-> v.Results[n]]

\* C21: a result returned without early exit has Confidence
\* 0.5 + 0.4 * completed/total for the completed stages of its run, which
\* lies in [0.5, 0.9], is not lower than the confidence of any shorter prefix
\* of its stages and is the same for results with other values; a result
\* returned on an early exit has Confidence 0.98.
C21_ConfidenceIsCoverage ==
  \A r \in Runs :
    ReturnedOk(r) =>
      LET v == inv[r].ret.snap
          c == v.Confidence
          k == Cardinality(Completed(r))
      IN IF v.EarlyExit
         THEN c.num * 100 = 98 * c.den * 100
         ELSE /\ c.num * NumStages = (50 * NumStages + 40 * k) * c.den
              /\ 50 * c.den <= c.num /\ c.num <= 90 * c.den
              /\ \A j \in 0..Len(v.StagesRun) :
                    LET d == calculateFinalConfidence(FirstResults(v, j))
                    IN  d.num * c.den <= c.num * d.den
              /\ calculateFinalConfidence([n \in DOMAIN v.Results |-> Nil]) = c

\* C21 witness: a run returned without early exit in which some stages
\* completed and others did not, one of them with a nil result
C21_PartialCoverage ==
  /\ ReturnedOk(1) /\ ~inv[1].ret.snap.EarlyExit
  /\ Cardinality(Completed(1)) \in 1..(NumStages - 1)
  /\ \E n \in DOMAIN inv[1].ret.snap.Results : inv[1].ret.snap.Results[n] = Nil


\* invocation r returns from the cache in this step
HitsNow(r) ==
  /\ inv[r].pc = "lookup" /\ inv'[r].pc = "done"
  /\ inv'[r].ret.kind = "ok" /\ inv'[r].ret.snap.CacheHit

\* C22: a step in which an invocation returns a cache hit calls no analyzer,
\* returns CacheHit = true, and leaves the cache as it was: the same entries
\* with the same expiry times, each still reading as the stored result with
\* CacheHit = false.
C22_HitLeavesEntryUnchanged ==
  [][\A r \in Runs :
       HitsNow(r) =>
         /\ inv'[r].log = <<>>
         /\ items' = items
         /\ \A k \in DOMAIN items :
              /\ View(structs', maps', arrays', items[k].Data.v)
                   = View(structs, maps, arrays, items[k].Data.v)
              /\ ~structs'[items[k].Data.v].CacheHit
              /\ items'[k].ExpiresAt = items[k].CreatedAt + CacheTTL]_vars

\* C22 witness: a hit returned one tick after the entry was stored, and the
\* entry still expires CacheTTL after it was stored
C22_HitAfterStore ==
  \E q, r \in Runs :
    /\ q < r /\ ReturnedOk(q) /\ inv[q].stored /\ ReturnedOk(r)
    /\ inv[r].ret.snap.CacheHit /\ inv[r].log = <<>>
    /\ inv[r].key = inv[q].key /\ At(r) = At(q) + 1
    /\ Has(items, inv[r].key) /\ items[inv[r].key].ExpiresAt = At(q) + CacheTTL
    /\ ~structs[items[inv[r].key].Data.v].CacheHit


\* the uploads answered so far, in the order of their requests
Uploads == {r \in Runs : metrics.handled[r] /\ inv[r].ret.kind = "ok"}
UploadNo(r) == Cardinality({q \in Uploads : q <= r})
VerdictOf(r) == metrics.verdicts[UploadNo(r)]

\* C23 (as claimed): every result returned with EarlyExit = true is judged
\* by CalculateOverallVerdict as the definitive verdict "AI Generated".
C23_EarlyExitJudgedDefinitive ==
  \A r \in Uploads :
    inv[r].ret.snap.EarlyExit => VerdictOf(r).verdict = "AI Generated"


\* goroutine g cannot take its next step on m.mu
BlockedOnMu(g) ==
  \/ AtOp(g, "RLock") /\ metrics.mu.w # 0
  \/ AtOp(g, "Lock") /\ metrics.mu.w # 0
  \/ AtOp(g, "LockWait") /\ \E r \in Goroutines : metrics.mu.readers[r] > 0

\* C24 (as claimed): a reader and a writer never wait for each other: no
\* getter waits in RLock for a writer that waits in Lock for a read lock
\* this getter holds.
C24_NoReaderWriterDeadlock ==
  \A g, w \in Goroutines :
    ~(/\ callers[g].op \in MetricsGetters /\ AtOp(g, "RLock")
      /\ metrics.mu.readers[g] > 0
      /\ metrics.mu.w = w /\ AtOp(w, "LockWait"))


\* C25 (as claimed): the verdict, probability, confidence and reported scores
\* of CalculateOverallVerdict are the same under every order in which the
\* Results map can be visited.
C25_VerdictIndependentOfOrder ==
  handler.pc = "verdict" =>
    \A o \in RangeOrders(handler.results) :
      LET other == OverallVerdictReport(handler.results, o)
      IN /\ other.verdict = handler.out.verdict
         /\ other.probability = handler.out.probability
         /\ other.confidence = handler.out.confidence
         /\ other.scores = handler.out.scores


\* the invocation whose stored result the hit of invocation r returned
HitSource(r) == structs[r].Results

\* C26 (as claimed): once ClearCache has returned on a pipeline, no invocation
\* that starts later, on any pipeline, returns a cache hit for a result that
\* was stored before that ClearCache call.
C26_NoHitOnClearedResult ==
  \A ap, r \in Runs :
    (/\ inv[ap].cleared /\ r \notin inv[ap].seen
     /\ ReturnedOk(r) /\ inv[r].ret.snap.CacheHit) =>
      HitSource(r) \notin inv[ap].seen


\* the labels of CalculateOverallVerdict that denote AI generation: the
\* definitive verdict and the labels at and above the "likely" threshold
EmittedAILabels == {"AI Generated", "Likely AI Generated"}

\* C27 (as claimed): after each upload AIDetectedCount is the number of
\* recorded verdicts whose label denotes AI generation.
C27_AIDetectedCountsAIVerdicts ==
  metrics.AIDetectedCount =
    Cardinality({i \in DOMAIN metrics.verdicts :
                   metrics.verdicts[i].verdict \in EmittedAILabels})


\* invocation q missed the cache and exited early
EarlyExitMiss(q) ==
  ReturnedOk(q) /\ ~inv[q].ret.snap.CacheHit /\ inv[q].ret.snap.EarlyExit

\* C28: an early-exit result is cached like any other miss: an invocation on
\* the same content that reads the cache within the TTL of that entry returns
\* a hit with EarlyExit = true and the StagesRun of the early exit, and calls
\* no analyzer, whatever the early-exit flag is by then.
C28_EarlyExitResultIsCached ==
  \A q, r \in Runs :
    (/\ q < r /\ EarlyExitMiss(q) /\ ReturnedOk(r)
     /\ SameContent(q, r) /\ At(r) <= At(q) + CacheTTL) =>
      /\ inv[q].stored
      /\ inv[r].ret.snap.CacheHit /\ inv[r].ret.snap.EarlyExit
      /\ inv[r].ret.snap.StagesRun = inv[q].ret.snap.StagesRun
      /\ inv[r].ret.snap.Results = inv[q].ret.snap.Results
      /\ \A i \in 1..Len(inv[r].ret.snap.StagesRun) :
           inv[r].ret.snap.StagesRun[i] \in FastTrackNames
      /\ inv[r].log = <<>>

\* C28 witness: an early exit, then a hit on its entry on the last tick of
\* the TTL, with early exit disabled
C28_EarlyExitHitWhileDisabled ==
  \E q, r \in Runs :
    /\ q < r /\ EarlyExitMiss(q) /\ ReturnedOk(r) /\ SameContent(q, r)
    /\ At(r) = At(q) + CacheTTL
    /\ inv[r].ret.snap.CacheHit /\ inv[r].ret.snap.EarlyExit
    /\ inv[r].ret.snap.StagesRun # <<>> /\ inv[r].log = <<>>
    /\ ~earlyExitEnabled


\* the stages invocation r called, in the order of the calls
CallOrder(r) == [i \in Calls(r) |-> inv[r].log[i].stage]
\* the registered stages in priority order
PriorityOrder == [j \in 1..NumStages |-> SortedStages[j].Name]

\* C29 (as claimed): a miss that finds early exit disabled returns
\* EarlyExit = false after calling every registered stage exactly once in
\* priority order; and whatever the flag does during an invocation, no stage
\* is called twice and EarlyExit = true is returned only when no
\* non-fast-track stage was called.
C29_FlagSwitchKeepsStagesOnce ==
  \A r \in Runs :
    (ReturnedOk(r) /\ ~inv[r].ret.snap.CacheHit) =>
      /\ ~inv[r].exitOn =>
            (~inv[r].ret.snap.EarlyExit /\ CallOrder(r) = PriorityOrder)
      /\ \A name \in StageNames : Invocations(r, name) <= 1
      /\ inv[r].ret.snap.EarlyExit => Attempted(r) \subseteq FastTrackNames


\* the stages whose analyzer returned a value to invocation r
Completed30(r) == {inv[r].log[i].stage : i \in {j \in Calls(r) : inv[r].log[j].ok}}
\* what invocation r returned is the whole result of its own stage calls
OwnResult(r) ==
  /\ inv[r].ret.snap.Results = [n \in Completed30(r) |-> AnalyzerOutput(n, inv[r].path)]
  /\ Len(inv[r].ret.snap.StagesRun) = Cardinality(Completed30(r))
  /\ \A n \in Completed30(r) : InStagesRun(r, n)
  /\ inv[r].ret.snap.EarlyExit \/ Completed30(r) = StageNames
ReturnedMiss(r) == ReturnedOk(r) /\ ~inv[r].ret.snap.CacheHit

\* C30: when two invocations on identical content both miss the cache, each
\* returns the whole result of its own run, and afterwards the cache holds
\* under their fingerprint one entry, which reads as the returned result of
\* one of the two.
C30_ConcurrentMissesStoreOneResult ==
  \A q, r \in Runs :
    (q # r /\ ReturnedMiss(q) /\ ReturnedMiss(r) /\ SameContent(q, r)) =>
      /\ OwnResult(q) /\ OwnResult(r)
      /\ inv[q].key = inv[r].key /\ Has(items, inv[q].key)
      /\ items[inv[q].key].Data \in {Ptr(q), Ptr(r)}
      /\ View(structs, maps, arrays, items[inv[q].key].Data.v)
           = inv[items[inv[q].key].Data.v].ret.snap

\* C30 witness: two misses on identical content that recorded their
\* fast-track stages in different orders; the entry is the result of the one
\* that started first and stored last
C30_TwoMissesSameContent ==
  \E q, r \in Runs :
    /\ q < r /\ ReturnedMiss(q) /\ ReturnedMiss(r) /\ SameContent(q, r)
    /\ inv[q].path # inv[r].path
    /\ inv[q].stored /\ inv[r].stored
    /\ inv[q].ret.snap.StagesRun # inv[r].ret.snap.StagesRun
    /\ items[inv[q].key].Data = Ptr(q)


====
